---- MODULE Spec2Model ----
(***************************************************************************)
(* Model of the AICoder multi-agent pipeline: the orchestrator's status    *)
(* router (agents/orchestrator.py), the LLM provider fallback               *)
(* (services/llm.py), the agent nodes (agents/*.py) and the two workflow   *)
(* graphs wired by graph/langgraph_builder.py.                              *)
(*                                                                         *)
(* A Python dict is a TLA+ function whose DOMAIN is the set of its keys.   *)
(* Python's None is the string NoneVal.  A text is a sequence of lines, a  *)
(* line a sequence of tokens; substring tests and replacements are done on *)
(* token sequences.                                                        *)
(***************************************************************************)
EXTENDS Integers, Sequences, FiniteSets, TLC

VARIABLES
    state,            \* the shared workflow state mapping (the dict handed from node to node)
    last,             \* name of the operation that produced `state` ("init" at start)
    input_intact,     \* whether the mapping passed to the last operation still had its
                      \* contents when the operation returned
    next_action,      \* what determine_next_action returned in the last orchestrator step
    prePause,         \* the state handed to pause_workflow, while a pause/resume pair is in progress
    graph,            \* which compiled graph is running: "simple", "conditional" or "none"
    node,             \* the node the graph runs next, or END
    services,         \* LLMServiceManager.services (the registered provider names)
    default_service,  \* LLMServiceManager.default_service
    fallback_chain,   \* LLMServiceManager.fallback_chain
    calls,            \* the providers invoked by the last generate_response, in order
    outcome,          \* what each provider does when invoked in that call: raise, or return a text
    request,          \* the service_name argument of that call
    response,         \* the value the last generate_response returned
    faults,           \* how many node calls of this run ended in their except branch
    input,            \* the arguments of the last call of a function that is run on its own
    output,           \* what that call returned
    project           \* the process's working directory, the files of my-new-website/src/app
                      \* below the directory the process started in, and what each
                      \* `npm run build` of the last call found to compile

vars == <<state, last, input_intact, next_action, prePause, graph, node,
          services, default_service, fallback_chain, calls, outcome, request, response,
          faults, input, output, project>>

-----------------------------------------------------------------------------
(* Python values *)

NoneVal == "None"

\* No function has been called on its own.
EmptyDict == [k \in {} |-> NoneVal]

\* The directory the process starts in, as the path from it, and the name of
\* the project directory.
StartDir == <<>>
ProjectName == "my-new-website"

\* After construction: nothing generated is in the app directory yet.
FreshProject == [cwd |-> StartDir, app_files |-> EmptyDict, built |-> <<>>]

NoCall ==
    /\ input = NoneVal
    /\ output = NoneVal
    /\ project = FreshProject

\* dict.get(key, default)
Get(d, k, default) == IF k \in DOMAIN d THEN d[k] ELSE default

\* d[key] = value on a copy of d
Put(d, k, v) == [x \in (DOMAIN d) \cup {k} |-> IF x = k THEN v ELSE d[x]]

\* A value that is not a mapping (a str or None stored where a dict is expected):
\* calling .get on it raises AttributeError.
NotADict == [not_a_dict |-> "str"]

IsDict(x) == "not_a_dict" \notin DOMAIN x

\* A node that assigns to the mapping it was given instead of to a copy.
ReturnedInPlace(state_object, updated_state) ==
    [state |-> updated_state, updated_state |-> updated_state]

\* What a call node(state) leaves behind: the mapping object the caller passed,
\* as it is after the call, and the mapping the node returned.  Every node
\* starts from updated_state = state.copy() and assigns only to updated_state.
Returned(state_object, updated_state) ==
    [state |-> state_object, updated_state |-> updated_state]

-----------------------------------------------------------------------------
(* agents/orchestrator.py *)

INITIALIZED == "initialized"
PLANNING == "planning"
CODING == "coding"
TESTING == "testing"
ENHANCING == "enhancing"
COMPLETED == "completed"
FAILED == "failed"
PAUSED == "paused"

WorkflowStatus ==
    {INITIALIZED, PLANNING, CODING, TESTING, ENHANCING, COMPLETED, FAILED, PAUSED}

\* The exception determine_next_action raises when an agent's entry in
\* agent_results has no .get (AttributeError).
Raised == [exception |-> "AttributeError"]

HasRaised(r) == "exception" \in DOMAIN r

\* A lookup that never finds the flag.
FlagOfNothing(agent_results, agent, flag) == NoneVal

\* agent_results.get(agent, {}).get(flag): the flag's value, NoneVal when the
\* agent or the flag is absent, "raise" when the agent's entry is not a mapping.
FlagOf(agent_results, agent, flag) ==
    LET out == Get(agent_results, agent, EmptyDict)
    IN  IF ~IsDict(out) THEN "raise" ELSE Get(out, flag, NoneVal)

\* An action that sends the workflow back to its start.
ActionBackToStart(status, agent, step, notes) ==
    [status |-> INITIALIZED, agent |-> agent, step |-> step, notes |-> notes]

Action(status, agent, step, notes) ==
    [status |-> status, agent |-> agent, step |-> step, notes |-> notes]

\* A branch that gives up on an agent that has not completed.
BranchGivingUp(agent_results, agent, flag, done, stay) ==
    IF FlagOf(agent_results, agent, flag) = "completed" THEN done
    ELSE [status |-> FAILED, agent |-> NoneVal, step |-> 0, notes |-> "Retries exhausted"]

\* One branch of determine_next_action for a working state.
Branch(agent_results, agent, flag, done, stay) ==
    LET f == FlagOf(agent_results, agent, flag)
    IN  IF f = "raise" THEN Raised
        ELSE IF f = "completed" THEN done ELSE stay

\* A router that hands back the status it was given.
determine_next_action_echo(current_status, st) ==
    [status |-> current_status, agent |-> NoneVal, step |-> 0, notes |-> "echo"]

determine_next_action(current_status, st) ==
    LET agent_results == Get(st, "agent_results", EmptyDict)
    IN  IF current_status = INITIALIZED
            THEN Action(PLANNING, "planner", 1, "Initializing project planning phase")
        ELSE IF current_status = PLANNING
            THEN Branch(agent_results, "planner", "planning_status",
                     Action(CODING, "coder", 2, "Planning complete, proceeding to code generation"),
                     Action(PLANNING, "planner", 1, "Continuing planning phase"))
        ELSE IF current_status = CODING
            THEN Branch(agent_results, "coder", "code_generation_status",
                     Action(TESTING, "tester", 3, "Code generation complete, proceeding to testing"),
                     Action(CODING, "coder", 2, "Continuing code generation"))
        ELSE IF current_status = TESTING
            THEN Branch(agent_results, "tester", "testing_status",
                     Action(ENHANCING, "enhancer", 4, "Testing complete, proceeding to enhancement"),
                     Action(TESTING, "tester", 3, "Continuing testing phase"))
        ELSE IF current_status = ENHANCING
            THEN Branch(agent_results, "enhancer", "enhancement_status",
                     Action(COMPLETED, NoneVal, 5, "All phases complete"),
                     Action(ENHANCING, "enhancer", 4, "Continuing enhancement phase"))
        ELSE Action(FAILED, NoneVal, 0, "Unknown workflow status")

\* Progress as a percentage (the source's 0.2 is 20).
calculate_progress(current_status) ==
    CASE current_status = INITIALIZED -> 0
      [] current_status = PLANNING -> 20
      [] current_status = CODING -> 40
      [] current_status = TESTING -> 60
      [] current_status = ENHANCING -> 80
      [] current_status = COMPLETED -> 100
      [] current_status = FAILED -> 0
      [] OTHER -> 0

estimate_completion_time(st) ==
    LET current_step == Get(Get(st, "workflow_metadata", EmptyDict), "current_step", 1)
    IN  CASE current_step = 1 -> "10-15 minutes"
          [] current_step = 2 -> "5-10 minutes"
          [] current_step = 3 -> "3-5 minutes"
          [] current_step = 4 -> "2-3 minutes"
          [] OTHER -> "Less than 1 minute"

\* What orchestrator_node returns.  The input mapping is only read.
orchestrator_node(st) ==
    LET updated_state ==
        LET current_status == Get(st, "workflow_status", INITIALIZED)
            na == determine_next_action(current_status, st)
        IN  IF HasRaised(na)
            THEN Put(Put(st, "workflow_status", FAILED), "error", "AttributeError")
            ELSE Put(Put(Put(Put(st,
                     "workflow_status", na.status),
                     "next_agent", na.agent),
                     "orchestration_notes", na.notes),
                     "workflow_metadata",
                         [current_step |-> na.step,
                          total_steps |-> 6,
                          progress |-> calculate_progress(current_status),
                          estimated_completion |-> estimate_completion_time(st)])
    IN  Returned(st, updated_state)

pause_workflow(st) ==
    Put(Put(st, "workflow_status", PAUSED), "paused_at", "current_timestamp")

resume_workflow(st) ==
    Put(Put(st, "workflow_status", Get(st, "previous_status", INITIALIZED)),
        "resumed_at", "current_timestamp")

-----------------------------------------------------------------------------
(* Texts: a text is a non-empty sequence of lines (str.split('\n')), a line
   a sequence of tokens.  Punctuation characters are tokens of their own and
   a word is one token, so a substring pattern is a token sequence. *)

\* The string returned when no provider answered (llm.py:218).
SentinelLine ==
    <<"All LLM services are currently unavailable">>
        \o <<".", " ">>
        \o <<"Please check your API keys and network connection">>
        \o <<".">>

Sentinel == <<SentinelLine>>

\* Sample provider replies.
PlanReply ==
    << <<"1", ".", " ", "PROJECT", " ", "OVERVIEW">>,
       <<"Name", ":", " ", "Shop">>,
       <<"A", " ", "landing", " ", "page">> >>

CodeReply ==
    << <<"/", "/", " ", "page", ".", "tsx">>,
       <<"export", " ", "default", " ", "function", " ", "Home", "(", ":", " ", "any", ")", " ", "{">>,
       <<" ", " ", "return", " ", "<", "Image", ";", " ", "src", "=", "a", " ", "/", ">">>,
       <<"}">> >>

ProseReply == << <<"Sure", " ", "here", " ", "is", " ", "the", " ", "answer">> >>

Replies == {PlanReply, CodeReply, ProseReply}

-----------------------------------------------------------------------------
(* services/llm.py *)

Providers == {"openai", "anthropic", "local"}

\* The fields of the LLMConfig dataclass (llm.py:27-35).
LLMConfigFields == {"provider", "model", "temperature", "max_tokens", "base_url", "timeout"}

\* OpenAIService.__init__ reads config.api_key (llm.py:59); AnthropicService.__init__
\* reads only model, temperature, max_tokens and timeout.  Reading a field the
\* dataclass does not have raises AttributeError.
OpenAIServiceInitRaises == "api_key" \notin LLMConfigFields

AnthropicServiceInitRaises ==
    ~({"model", "temperature", "max_tokens", "timeout"} \subseteq LLMConfigFields)

Manager(svcs, dflt, chain) ==
    [services |-> svcs, default_service |-> dflt, fallback_chain |-> chain]

\* LLMServiceManager.__init__ followed by _initialize_default_services, for an
\* environment with or without each API key.  An exception anywhere in the
\* body is caught by the outer except and ends the initialisation.
initialize_default_services(openai_key, anthropic_key) ==
    LET m0 == Manager({}, NoneVal, <<>>)
        afterOpenAI ==
            IF openai_key
            THEN IF OpenAIServiceInitRaises
                 THEN [raised |-> TRUE, m |-> m0]
                 ELSE [raised |-> FALSE,
                       m |-> Manager({"openai"}, "openai", <<"openai">>)]
            ELSE [raised |-> FALSE, m |-> m0]
        m1 == afterOpenAI.m
    IN  IF afterOpenAI.raised THEN m1
        ELSE IF anthropic_key
             THEN IF AnthropicServiceInitRaises THEN m1
                  ELSE Manager(m1.services \cup {"anthropic"},
                               IF m1.default_service = NoneVal
                                   THEN "anthropic" ELSE m1.default_service,
                               Append(m1.fallback_chain, "anthropic"))
             ELSE m1

add_service(m, name) ==
    Manager(m.services \cup {name}, m.default_service, m.fallback_chain)

\* get_service(name): the registered service of that name (or of the default
\* when name is None), NoneVal when there is none.
get_service(m, name) ==
    LET service_name == IF name = NoneVal THEN m.default_service ELSE name
    IN  IF service_name \in m.services THEN service_name ELSE NoneVal

Result(text, called) == [response |-> text, calls |-> called]

\* A walk of the fallback chain that tries the named service again.
RECURSIVE TryFallbackRetrying(_, _, _, _, _)
TryFallbackRetrying(m, service_name, out, i, called) ==
    IF i > Len(m.fallback_chain) THEN Result(Sentinel, called)
    ELSE LET fallback_service == m.fallback_chain[i]
         IN  IF get_service(m, fallback_service) # NoneVal
             THEN IF out[fallback_service].raises
                  THEN TryFallbackRetrying(m, service_name, out, i + 1,
                                           Append(called, fallback_service))
                  ELSE Result(out[fallback_service].text,
                              Append(called, fallback_service))
             ELSE TryFallbackRetrying(m, service_name, out, i + 1, called)

\* The fallback loop of generate_response from position i of the chain on;
\* `called` are the providers invoked so far.
RECURSIVE TryFallback(_, _, _, _, _)
TryFallback(m, service_name, out, i, called) ==
    IF i > Len(m.fallback_chain) THEN Result(Sentinel, called)
    ELSE LET fallback_service == m.fallback_chain[i]
         IN  IF fallback_service # service_name
                 /\ get_service(m, fallback_service) # NoneVal
             THEN IF out[fallback_service].raises
                  THEN TryFallback(m, service_name, out, i + 1,
                                   Append(called, fallback_service))
                  ELSE Result(out[fallback_service].text,
                              Append(called, fallback_service))
             ELSE TryFallback(m, service_name, out, i + 1, called)

\* A generate_response that ignores the named service.
generate_response_chain_only(m, service_name, out) ==
    TryFallback(m, NoneVal, out, 1, <<>>)

\* LLMServiceManager.generate_response: the returned text and the providers
\* invoked, in order.  out[p] says what provider p does when invoked.
generate_response(m, service_name, out) ==
    IF service_name # NoneVal /\ get_service(m, service_name) # NoneVal
    THEN IF out[service_name].raises
         THEN TryFallback(m, service_name, out, 1, <<service_name>>)
         ELSE Result(out[service_name].text, <<service_name>>)
    ELSE TryFallback(m, service_name, out, 1, <<>>)

\* generate_agent_response passes no service_name.
generate_agent_response(m, out) == generate_response(m, NoneVal, out)

\* What a provider can do when invoked: raise (the text is then unused), or
\* return one of the replies.
ProviderRaises == [raises |-> TRUE, text |-> ProseReply]

ProviderOutcomes == {ProviderRaises} \cup [raises : {FALSE}, text : {PlanReply, CodeReply}]

Outcomes == [Providers -> ProviderOutcomes]

NoOutcome == [p \in Providers |-> ProviderRaises]

-----------------------------------------------------------------------------
(* Python str operations on a line (a token sequence) *)

\* pat occurs in line at position i
MatchAt(line, pat, i) ==
    /\ i >= 1
    /\ i + Len(pat) - 1 <= Len(line)
    /\ \A j \in 1..Len(pat) : line[i + j - 1] = pat[j]

\* pat in line
Contains(line, pat) == \E i \in 1..(Len(line) + 1) : MatchAt(line, pat, i)

\* line.startswith(pat), line.endswith(pat)
StartsWith(line, pat) == MatchAt(line, pat, 1)

EndsWith(line, pat) == MatchAt(line, pat, Len(line) - Len(pat) + 1)

IsSpace(tok) == tok \in {" ", "\t"}

RECURSIVE LStrip(_)
LStrip(line) ==
    IF line # <<>> /\ IsSpace(Head(line)) THEN LStrip(Tail(line)) ELSE line

RECURSIVE RStrip(_)
RStrip(line) ==
    IF line # <<>> /\ IsSpace(line[Len(line)])
    THEN RStrip(SubSeq(line, 1, Len(line) - 1))
    ELSE line

\* line.strip()
Strip(line) == RStrip(LStrip(line))

\* line.replace(pat, rep): every non-overlapping occurrence, left to right
RECURSIVE Replace(_, _, _)
Replace(line, pat, rep) ==
    IF line = <<>> THEN <<>>
    ELSE IF MatchAt(line, pat, 1)
         THEN rep \o Replace(SubSeq(line, Len(pat) + 1, Len(line)), pat, rep)
         ELSE <<Head(line)>> \o Replace(Tail(line), pat, rep)

\* line.replace('; ', ' ').replace(' ;', ' ')
DropSemicolons(line) == Replace(Replace(line, <<";", " ">>, <<" ">>), <<" ", ";">>, <<" ">>)

\* '\n'.join(lines).strip(): leading and trailing blank lines go, the first
\* line left is lstripped and the last rstripped; '' is the text of one empty line.
RECURSIVE DropBlankHead(_)
DropBlankHead(lines) ==
    IF lines # <<>> /\ Strip(Head(lines)) = <<>> THEN DropBlankHead(Tail(lines)) ELSE lines

RECURSIVE DropBlankTail(_)
DropBlankTail(lines) ==
    IF lines # <<>> /\ Strip(lines[Len(lines)]) = <<>>
    THEN DropBlankTail(SubSeq(lines, 1, Len(lines) - 1))
    ELSE lines

StripText(lines) ==
    LET body == DropBlankTail(DropBlankHead(lines))
    IN  IF body = <<>> THEN << <<>> >>
        ELSE IF Len(body) = 1 THEN << Strip(body[1]) >>
        ELSE << LStrip(body[1]) >> \o SubSeq(body, 2, Len(body) - 1)
                 \o << RStrip(body[Len(body)]) >>

\* One statement after another: the value the first one assigned, handed to
\* the next.
Then(value, Statement(_)) ==
    CHOOSE result \in {Statement(given) : given \in {value}} : TRUE

\* Apply a line rewrite to every line of a text.
MapLines(F(_), text) ==
    CHOOSE mapped \in {[i \in 1..Len(lines) |-> F(lines[i])] :
                           lines \in {given \in {text} : given = given}} : mapped = mapped

-----------------------------------------------------------------------------
(* agents/coder.py: the automatic fixes *)

AnyParam == <<"(", ":", " ", "any", ")">>
NoParam == <<"(", ")">>

IsCommentLine(line) == StartsWith(Strip(line), <<"/", "/">>)
IsImportLine(line) == StartsWith(Strip(line), <<"import">>)
IsExportLine(line) == StartsWith(Strip(line), <<"export">>)
HasSemicolon(line) == Contains(line, <<";">>)

\* The rules fix_typescript_syntax_errors applies to a line, in its order.
TsFunctionParam(line) ==
    IF Contains(line, <<"function">>) /\ Contains(line, AnyParam)
    THEN Replace(line, AnyParam, NoParam) ELSE line

TsDoubleAnnotation(line) ==
    IF Contains(line, <<"}", ":", " ", "{">>) /\ Contains(line, <<"}", ":", " ", "any", ")">>)
    THEN Replace(line, <<"}", ":", " ", "any", ")">>, <<")">>) ELSE line

TsJsxSemicolon(line) ==
    IF Contains(line, <<"<">>) /\ Contains(line, <<">">>) /\ HasSemicolon(line)
       /\ ~IsCommentLine(line) /\ ~IsImportLine(line) /\ ~IsExportLine(line)
    THEN DropSemicolons(line) ELSE line

TsImportSemicolon(line) ==
    IF IsImportLine(line) /\ HasSemicolon(line) /\ ~EndsWith(Strip(line), <<";">>)
    THEN DropSemicolons(line) ELSE line

TsExportSemicolon(line) ==
    IF IsExportLine(line) /\ Contains(line, <<"function">>) /\ HasSemicolon(line)
    THEN DropSemicolons(line) ELSE line

TsExportDefaultParam(line) ==
    IF Contains(line, <<"export", " ", "default", " ", "function">>) /\ Contains(line, AnyParam)
    THEN Replace(line, AnyParam, NoParam) ELSE line

TsReactFC(line) ==
    IF Contains(line, <<"React", ".", "FC">>) /\ HasSemicolon(line)
    THEN DropSemicolons(line) ELSE line

FixTsLine(line) ==
    TsReactFC(TsExportDefaultParam(TsExportSemicolon(TsImportSemicolon(
        TsJsxSemicolon(TsDoubleAnnotation(TsFunctionParam(line)))))))

fix_typescript_syntax_errors(code) == MapLines(FixTsLine, code)

\* One rule of fix_jsx_syntax_errors: when the line holds every marker and a
\* semicolon and is no comment, drop the semicolons.
JsxRule(line, markers) ==
    IF (\A m \in markers : Contains(line, m)) /\ HasSemicolon(line) /\ ~IsCommentLine(line)
    THEN DropSemicolons(line) ELSE line

FixJsxLine(line) ==
    JsxRule(JsxRule(JsxRule(JsxRule(line,
        {<<"<">>, <<"/", ">">>}), {<<"className", "=">>}), {<<"src", "=">>}), {<<"alt", "=">>})

fix_jsx_syntax_errors(code) == MapLines(FixJsxLine, code)

ImportSemicolon(line) ==
    IF IsImportLine(line) /\ HasSemicolon(line) /\ ~EndsWith(Strip(line), <<";">>)
    THEN DropSemicolons(line) ELSE line

ExportSemicolon(line) ==
    IF IsExportLine(line) /\ HasSemicolon(line) /\ ~EndsWith(Strip(line), <<";">>)
    THEN DropSemicolons(line) ELSE line

FixImportExportLine(line) == Then(ImportSemicolon(line), ExportSemicolon)

fix_import_export_syntax(code) == MapLines(FixImportExportLine, code)

auto_fix_generated_code(code) ==
    fix_import_export_syntax(fix_jsx_syntax_errors(fix_typescript_syntax_errors(code)))

-----------------------------------------------------------------------------
(* agents/coder.py: splitting the reply into files and validating them *)

\* A "// name.tsx" or "// name.css" marker line.
IsFilenameComment(line) ==
    /\ StartsWith(Strip(line), <<"/", "/", " ">>)
    /\ \/ EndsWith(Strip(line), <<".", "tsx">>)
       \/ EndsWith(Strip(line), <<".", "css">>)

\* line.strip()[3:]
FilenameOf(line) == SubSeq(Strip(line), 4, Len(Strip(line)))

\* No current file yet (Python's None; a filename is never empty).
NoFile == <<>>

\* "if current_file and current_content: files[current_file] = ..."
SaveFile(files, current_file, current_content) ==
    IF current_file # NoFile /\ current_content # <<>>
    THEN Put(files, current_file, StripText(current_content))
    ELSE files

RECURSIVE ParseLines(_, _, _, _, _)
ParseLines(lines, i, files, current_file, current_content) ==
    IF i > Len(lines) THEN SaveFile(files, current_file, current_content)
    ELSE IF IsFilenameComment(lines[i])
         THEN ParseLines(lines, i + 1, SaveFile(files, current_file, current_content),
                         FilenameOf(lines[i]), <<>>)
         ELSE ParseLines(lines, i + 1, files, current_file,
                         IF current_file # NoFile
                             THEN Append(current_content, lines[i])
                             ELSE current_content)

parse_generated_code(generated_code) ==
    ParseLines(generated_code, 1, EmptyDict, NoFile, <<>>)

Diagnostic(i, msg) == [line |-> i, msg |-> msg]

\* The checks validate_code makes on line i, applied to the result so far.
ValidateLine(v, i, raw) ==
    LET line == Strip(raw)
        v1 == IF Contains(line, <<"function">>) /\ Contains(line, AnyParam)
              THEN [v EXCEPT !.is_valid = FALSE,
                             !.errors = Append(@, Diagnostic(i, "Invalid function parameter syntax"))]
              ELSE v
        v2 == IF Contains(line, <<"}", ":", " ", "{">>) /\ Contains(line, <<"}", ":", " ", "any">>)
              THEN [v1 EXCEPT !.is_valid = FALSE,
                              !.errors = Append(@, Diagnostic(i, "Double type annotation"))]
              ELSE v1
        v3 == IF HasSemicolon(line) /\ Contains(line, <<"<">>) /\ Contains(line, <<">">>)
                 /\ ~IsCommentLine(line) /\ ~IsImportLine(line) /\ ~IsExportLine(line)
              THEN [v2 EXCEPT !.warnings = Append(@, Diagnostic(i, "Possible semicolon in JSX"))]
              ELSE v2
        v4 == IF StartsWith(line, <<"import">>) /\ HasSemicolon(line) /\ ~EndsWith(line, <<";">>)
              THEN [v3 EXCEPT !.errors = Append(@, Diagnostic(i, "Invalid import syntax"))]
              ELSE v3
        v5 == IF StartsWith(line, <<"export">>) /\ Contains(line, <<"function">>) /\ HasSemicolon(line)
              THEN [v4 EXCEPT !.errors = Append(@, Diagnostic(i, "Invalid export syntax"))]
              ELSE v4
    IN  v5

RECURSIVE ValidateFrom(_, _, _)
ValidateFrom(v, lines, i) ==
    IF i > Len(lines) THEN v
    ELSE ValidateFrom(ValidateLine(v, i, lines[i]), lines, i + 1)

validate_code(code) ==
    ValidateFrom([is_valid |-> TRUE, errors |-> <<>>, warnings |-> <<>>], code, 1)

\* The loop of validate_generated_files over the files still to visit.
RECURSIVE ValidateFiles(_, _, _)
ValidateFiles(all_validation, parsed_files, todo) ==
    IF todo = {} THEN all_validation
    ELSE LET filename == CHOOSE f \in todo : TRUE
             file_validation == validate_code(parsed_files[filename])
             a1 == [all_validation EXCEPT
                       !.file_validations = Put(@, filename, file_validation)]
             a2 == IF ~file_validation.is_valid
                   THEN [a1 EXCEPT !.overall_valid = FALSE,
                                   !.total_errors = @ + Len(file_validation.errors)]
                   ELSE a1
             a3 == [a2 EXCEPT !.total_warnings = @ + Len(file_validation.warnings)]
         IN  ValidateFiles(a3, parsed_files, todo \ {filename})

validate_generated_files(parsed_files) ==
    ValidateFiles([overall_valid |-> TRUE, file_validations |-> EmptyDict,
                   total_errors |-> 0, total_warnings |-> 0],
                  parsed_files, DOMAIN parsed_files)

-----------------------------------------------------------------------------
(* agents/planner.py *)

\* str.lower() on the tokens the replies use.
LowerTok(tok) ==
    CASE tok = "PROJECT" -> "project"
      [] tok = "OVERVIEW" -> "overview"
      [] tok = "Name" -> "name"
      [] tok = "Shop" -> "shop"
      [] tok = "A" -> "a"
      [] tok = "Sure" -> "sure"
      [] tok = "Home" -> "home"
      [] tok = "Image" -> "image"
      [] tok = "Failed" -> "failed"
      [] tok = "Type" -> "type"
      [] tok = "All LLM services are currently unavailable"
             -> "all llm services are currently unavailable"
      [] tok = "Please check your API keys and network connection"
             -> "please check your api keys and network connection"
      [] OTHER -> tok

Lower(line) == [i \in 1..Len(line) |-> LowerTok(line[i])]

\* The section a header line opens ('project overview' in line.lower(), ...),
\* in the order of the elif chain; NoneVal for a content line.
SectionOf(line) ==
    LET low == Lower(line)
    IN  IF Contains(low, <<"project", " ", "overview">>) THEN "project_overview"
        ELSE IF Contains(low, <<"file", " ", "structure">>) THEN "file_structure"
        ELSE IF Contains(low, <<"component", " ", "specifications">>) THEN "component_specifications"
        ELSE IF Contains(low, <<"page", " ", "structure">>) THEN "page_structure"
        ELSE IF Contains(low, <<"styling", " ", "template">>) THEN "styling_template"
        ELSE IF Contains(low, <<"technical", " ", "requirements">>) THEN "technical_requirements"
        ELSE IF Contains(low, <<"content", " ", "requirements">>) THEN "content_requirements"
        ELSE IF Contains(low, <<"implementation", " ", "priorities">>) THEN "implementation_priorities"
        ELSE NoneVal

\* Values of the plan's sections: a str is the sequence of its lines, a list
\* the sequence of its items, a dict is left empty by parse_plan.
StrVal(lines) == [type |-> "str", val |-> lines]
ListVal(items) == [type |-> "list", val |-> items]
DictVal == [type |-> "dict", val |-> <<>>]
EmptyStr == StrVal(<< <<>> >>)

PlanTemplate ==
    [project_overview |->
        [name |-> EmptyStr, description |-> EmptyStr,
         features |-> ListVal(<<>>), target_audience |-> EmptyStr],
     file_structure |->
        [required_files |-> ListVal(<<>>), optional_components |-> ListVal(<<>>),
         component_hierarchy |-> DictVal],
     component_specifications |-> EmptyDict,
     page_structure |->
        [sections |-> ListVal(<<>>), content_requirements |-> DictVal,
         layout_requirements |-> DictVal],
     styling_template |->
        [color_scheme |-> DictVal, typography |-> DictVal,
         animations |-> DictVal, responsive_breakpoints |-> DictVal],
     technical_requirements |->
        [nextjs_version |-> EmptyStr, typescript_config |-> DictVal,
         tailwind_setup |-> DictVal, performance_considerations |-> ListVal(<<>>)],
     content_requirements |->
        [text_content |-> DictVal, image_requirements |-> DictVal,
         cta_elements |-> ListVal(<<>>), navigation_structure |-> DictVal],
     implementation_priorities |->
        [required_files |-> ListVal(<<>>), optional_components |-> ListVal(<<>>),
         error_free_requirements |-> ListVal(<<>>), dependency_rules |-> ListVal(<<>>)]]

\* The position of the first ":" of a line (0 when there is none).
RECURSIVE ColonAt(_, _)
ColonAt(line, i) ==
    IF i > Len(line) THEN 0
    ELSE IF line[i] = ":" THEN i ELSE ColonAt(line, i + 1)

\* ''.join of the tokens with ' ' replaced by '_'
RECURSIVE KeyOf(_)
KeyOf(toks) ==
    IF toks = <<>> THEN ""
    ELSE (IF Head(toks) = " " THEN "_" ELSE Head(toks)) \o KeyOf(Tail(toks))

\* One content line added to the current section.
AddContent(acc, line) ==
    LET sec == acc.plan[acc.section]
        sub == acc.subsection
    IN  IF sub # NoneVal /\ sub \in DOMAIN sec
        THEN IF sec[sub].type = "list"
                 THEN [acc EXCEPT !.plan[acc.section] =
                          Put(sec, sub, ListVal(Append(sec[sub].val, line)))]
             ELSE IF sec[sub].type = "str"
                 THEN [acc EXCEPT !.plan[acc.section] =
                          Put(sec, sub, StrVal(Append(sec[sub].val, line)))]
             ELSE acc
        ELSE IF Contains(line, <<":">>) /\ ~StartsWith(line, <<"-">>)
             THEN LET c == ColonAt(line, 1)
                      subsection == KeyOf(Lower(Strip(SubSeq(line, 1, c - 1))))
                      content == Strip(SubSeq(line, c + 1, Len(line)))
                  IN  [acc EXCEPT
                          !.plan[acc.section] =
                              IF subsection \notin DOMAIN sec
                              THEN Put(sec, subsection, StrVal(<<content>>))
                              ELSE sec,
                          !.subsection = subsection]
             ELSE LET withDesc == IF "description" \notin DOMAIN sec
                                  THEN Put(sec, "description", EmptyStr) ELSE sec
                  IN  [acc EXCEPT !.plan[acc.section] =
                          Put(withDesc, "description",
                              StrVal(Append(withDesc["description"].val, line)))]

RECURSIVE PlanLines(_, _, _)
PlanLines(acc, lines, i) ==
    IF i > Len(lines) THEN acc.plan
    ELSE LET line == Strip(lines[i])
         IN  IF line = <<>> THEN PlanLines(acc, lines, i + 1)
             ELSE IF SectionOf(line) # NoneVal
                  THEN PlanLines([acc EXCEPT !.section = SectionOf(line),
                                             !.subsection = NoneVal], lines, i + 1)
             ELSE IF acc.section # NoneVal
                  THEN PlanLines(AddContent(acc, line), lines, i + 1)
             ELSE PlanLines(acc, lines, i + 1)

parse_plan(plan_content) ==
    PlanLines([plan |-> PlanTemplate, section |-> NoneVal, subsection |-> NoneVal],
              plan_content, 1)

\* planner_node: raises says that the try body raised (e.g. `config` is not a
\* mapping); plan_content is what generate_agent_response returned.
planner_node(st, raises, plan_content) ==
    LET updated_state ==
        IF raises
        THEN Put(Put(st, "planning_status", "failed"), "error", "planner_error")
        ELSE LET structured_plan == parse_plan(plan_content)
             IN  Put(Put(Put(Put(st,
                     "plan", structured_plan),
                     "planning_status", "completed"),
                     "file_structure", Get(structured_plan, "file_structure", EmptyDict)),
                     "implementation_steps", Get(structured_plan, "implementation_steps", <<>>))
    IN  Returned(st, updated_state)

-----------------------------------------------------------------------------
(* agents/coder.py: the node *)

coder_node(st, raises, generated_code) ==
    LET updated_state ==
        IF raises
        THEN Put(Put(st, "code_generation_status", "failed"), "error", "coder_error")
        ELSE LET fixed_code == auto_fix_generated_code(generated_code)
                 parsed_files == parse_generated_code(fixed_code)
                 validation_results == validate_generated_files(parsed_files)
             IN  Put(Put(Put(Put(st,
                     "generated_code", fixed_code),
                     "parsed_files", parsed_files),
                     "validation_results", validation_results),
                     "code_generation_status", "completed")
    IN  Returned(st, updated_state)

-----------------------------------------------------------------------------
(* agents/tester.py *)

\* len(line) in characters
RECURSIVE CharLen(_)
CharLen(line) == IF line = <<>> THEN 0 ELSE Len(Head(line)) + CharLen(Tail(line))

\* The list prefixes parse_recommendations removes, in its order.
ListPrefixes ==
    << <<"-", " ">>, <<"*", " ">>, <<"1", ".", " ">>, <<"2", ".", " ">>,
       <<"3", ".", " ">>, <<"4", ".", " ">>, <<"5", ".", " ">> >>

RECURSIVE DropListPrefix(_, _)
DropListPrefix(line, k) ==
    IF k > Len(ListPrefixes) THEN line
    ELSE IF StartsWith(line, ListPrefixes[k])
         THEN SubSeq(line, Len(ListPrefixes[k]) + 1, Len(line))
         ELSE DropListPrefix(line, k + 1)

RECURSIVE RecommendationLines(_, _)
RecommendationLines(lines, i) ==
    IF i > Len(lines) THEN <<>>
    ELSE LET line == Strip(lines[i])
             item == DropListPrefix(line, 1)
             rest == RecommendationLines(lines, i + 1)
         IN  IF line # <<>> /\ item # <<>> /\ CharLen(item) > 10
             THEN <<item>> \o rest ELSE rest

\* recommendations[:5]
parse_recommendations(llm_response) ==
    LET all == RecommendationLines(llm_response, 1)
    IN  SubSeq(all, 1, IF Len(all) < 5 THEN Len(all) ELSE 5)

\* What run_comprehensive_tests reports: the syntax check is an external
\* subprocess, so its verdict is an input; an invalid syntax check gives "fail".
TestResults ==
    {[syntax_valid |-> FALSE, overall_status |-> "fail"],
     [syntax_valid |-> TRUE, overall_status |-> "pass"]}

generate_fallback_recommendations(test_results) ==
    IF ~test_results.syntax_valid
    THEN << <<"Fix syntax errors before proceeding">> >>
    ELSE <<>>

generate_test_recommendations(test_results, llm_response) ==
    LET recommendations == parse_recommendations(llm_response)
    IN  IF recommendations = <<>>
        THEN generate_fallback_recommendations(test_results)
        ELSE recommendations

tester_node(st, raises, test_results, llm_response) ==
    LET updated_state ==
        IF raises
        THEN Put(Put(st, "testing_status", "failed"), "error", "tester_error")
        ELSE Put(Put(Put(Put(st,
                 "test_results", test_results),
                 "testing_status", "completed"),
                 "test_recommendations", generate_test_recommendations(test_results, llm_response)),
                 "deployment_ready", test_results.overall_status = "pass")
    IN  Returned(st, updated_state)

-----------------------------------------------------------------------------
(* agents/enhancer.py *)

EmptyText == << <<>> >>

\* generate_enhanced_prompt: the stripped reply, or the fallback when the
\* reply is empty or repeats the prompt.  The fallback is the original prompt:
\* the context carries none of the optional parts and the analysis no issue.
generate_enhanced_prompt(original_prompt, llm_response) ==
    LET enhanced_prompt == StripText(llm_response)
    IN  IF enhanced_prompt = EmptyText \/ enhanced_prompt = original_prompt
        THEN original_prompt ELSE enhanced_prompt

\* generate_interaction_suggestions; score is the enhancement score in percent.
generate_interaction_suggestions(score, st) ==
    LET byScore == IF score < 50
                   THEN <<"Consider providing more specific requirements and constraints",
                          "Include technology stack preferences if applicable">>
                   ELSE <<>>
        workflow_status == Get(st, "workflow_status", "")
        byStatus == IF workflow_status = "planning"
                        THEN <<"Consider providing project scope and timeline">>
                    ELSE IF workflow_status = "coding"
                        THEN <<"Specify coding standards and preferences">>
                    ELSE IF workflow_status = "testing"
                        THEN <<"Define testing requirements and coverage expectations">>
                    ELSE <<>>
    IN  byScore \o byStatus

\* The enhancement scores (percent) the analysis can give.
Scores == {40, 80}

enhancer_node(st, raises, llm_response, score) ==
    LET updated_state ==
        IF raises
        THEN Put(Put(st, "enhancement_status", "failed"), "error", "enhancer_error")
        ELSE LET user_input == Get(st, "user_input", EmptyText)
                 enhanced_prompt == generate_enhanced_prompt(user_input, llm_response)
                 s1 == Put(Put(Put(Put(Put(Put(st,
                         "enhanced_prompt", enhanced_prompt),
                         "prompt_analysis", "analysis"),
                         "enhancement_validation", "validation"),
                         "enhancement_score", score),
                         "interaction_suggestions", generate_interaction_suggestions(score, st)),
                         "enhancement_status", "completed")
             IN  IF score > 70
                 THEN Put(Put(s1, "user_input", enhanced_prompt), "prompt_enhanced", TRUE)
                 ELSE Put(s1, "prompt_enhanced", FALSE)
    IN  Returned(st, updated_state)

-----------------------------------------------------------------------------
(* agents/memory.py *)

\* merge_contexts: the context with a summary of the memories appended.
merge_contexts(current_context, memory_context) ==
    IF memory_context = <<>> THEN current_context
    ELSE current_context
            \o << <<>>, <<"Previous relevant context", ":">> >>
            \o [i \in 1..(IF Len(memory_context) < 3 THEN Len(memory_context) ELSE 3) |->
                    <<"-", " ">> \o Get(memory_context[i], "user_input", <<>>) \o <<".", ".", ".">>]
            \o << <<>> >>

memory_node(st, raises, relevant_context) ==
    LET updated_state ==
        IF raises
        THEN Put(Put(st, "memory_status", "failed"), "error", "memory_error")
        ELSE Put(Put(Put(st,
                 "memory_context", relevant_context),
                 "memory_status", "completed"),
                 "context", merge_contexts(Get(st, "context", EmptyText), relevant_context))
    IN  Returned(st, updated_state)

-----------------------------------------------------------------------------
(* agents/toolbox.py *)

\* A toolbox node that reports its completion in agent_results.
toolbox_node_reporting(st, raises) ==
    Returned(st, Put(st, "agent_results",
                     Put(Get(st, "agent_results", EmptyDict), "toolbox",
                         [toolbox_status |-> IF raises THEN "failed" ELSE "completed"])))

toolbox_node(st, raises) ==
    LET updated_state ==
        IF raises
        THEN Put(Put(st, "toolbox_status", "failed"), "error", "toolbox_error")
        ELSE LET tool_request == Get(st, "tool_request", EmptyDict)
                 tool_type == Get(tool_request, "type", "")
                 result == IF tool_type \in {"file_operation", "code_analysis",
                                             "dependency_analysis", "code_formatting"}
                           THEN [success |-> TRUE, error |-> ""]
                           ELSE [success |-> FALSE, error |-> "Unknown tool type"]
             IN  Put(Put(st, "tool_result", result), "toolbox_status", "completed")
    IN  Returned(st, updated_state)

-----------------------------------------------------------------------------
(* graph/langgraph_builder.py: the two compiled graphs *)

END == "__end__"

NodeNames == {"orchestrator", "planner", "enhancer", "coder", "tester", "memory", "toolbox"}

\* should_continue_to_<target>: END when the status is failed, else the target.
should_continue_to(target, st) ==
    IF Get(st, "workflow_status", NoneVal) = "failed" THEN END ELSE target

should_end_workflow(st) ==
    IF Get(st, "workflow_status", NoneVal) \in {"completed", "failed"}
    THEN END ELSE "orchestrator"

\* The node that runs after `name` returned st.  The simple graph has one
\* edge per node, name -> orchestrator (_add_workflow_edges installs nothing
\* else); the conditional graph has one conditional edge per node.
NextNode(g, name, st) ==
    IF g = "simple" THEN "orchestrator"
    ELSE CASE name = "orchestrator" -> should_continue_to("planner", st)
           [] name = "planner" -> should_continue_to("enhancer", st)
           [] name = "enhancer" -> should_continue_to("coder", st)
           [] name = "coder" -> should_continue_to("tester", st)
           [] name = "tester" -> should_continue_to("memory", st)
           [] name = "memory" -> should_continue_to("toolbox", st)
           [] OTHER -> should_end_workflow(st)

-----------------------------------------------------------------------------
(* The inputs of a run *)

Prompt == << <<"Build", " ", "a", " ", "shop">> >>

\* main.py prepare_initial_state: no workflow_status and no agent_results.
PreparedState ==
    [user_input |-> Prompt, workflow_step |-> "initialized", config |-> "config"]

AllCompleted ==
    [planner |-> [planning_status |-> "completed"],
     coder |-> [code_generation_status |-> "completed"],
     tester |-> [testing_status |-> "completed"],
     enhancer |-> [enhancement_status |-> "completed"]]

StateWith(workflow_status, agent_results) ==
    Put(Put(PreparedState, "workflow_status", workflow_status), "agent_results", agent_results)

\* The state test_langgraph_workflow.py hands to invoke().
CleanState == StateWith(INITIALIZED, EmptyDict)

\* The mappings a caller hands to invoke(): the prepared state, a run resumed
\* in its last phase, a finished run, and a state whose planner entry is no
\* mapping.
InitialStates ==
    {PreparedState,
     StateWith(ENHANCING, AllCompleted),
     StateWith(COMPLETED, AllCompleted),
     StateWith(PLANNING, [planner |-> NotADict])}

\* What the providers do in one agent's call: only anthropic can be registered
\* by _initialize_default_services, so only its outcome matters.
AnthropicReplies(text) ==
    [p \in Providers |-> IF p = "anthropic" THEN [raises |-> FALSE, text |-> text]
                         ELSE NoOutcome[p]]

\* The provider raises, or answers the agent's prompt.  With no provider
\* registered none is called, and what one would do is left out.
AgentOutcomes(agent, registered) ==
    IF registered = {} THEN {NoOutcome}
    ELSE {NoOutcome,
          AnthropicReplies(CASE agent = "planner" -> PlanReply
                             [] agent = "coder" -> CodeReply
                             [] OTHER -> ProseReply)}

\* At most this many node calls of a run end in their except branch.
MaxFaults == 1

\* The memories retrieve_relevant_context can return for the prompt.
MemoryHit == << [user_input |-> Prompt[1]] >>

\* The context is allowed to grow up to this many lines.
MaxContextLines == 5

NoAction == Action(NoneVal, NoneVal, 0, NoneVal)

thisManager == Manager(services, default_service, fallback_chain)

\* The bookkeeping of a node call: the new shared state, the call's name, and
\* whether the caller's mapping is after the call what it was before.
Invoked(name, r) ==
    /\ faults' = faults
    /\ state' = r.updated_state
    /\ last' = name
    /\ input_intact' = (r.state = state)
    /\ node' = NextNode(graph, name, r.updated_state)

\* A call that ended in the node's except branch.
Faulted(name, r) ==
    /\ faults < MaxFaults
    /\ faults' = faults + 1
    /\ state' = r.updated_state
    /\ last' = name
    /\ input_intact' = (r.state = state)
    /\ node' = NextNode(graph, name, r.updated_state)

NoLLMCall ==
    /\ calls' = <<>>
    /\ outcome' = NoOutcome
    /\ request' = NoneVal
    /\ response' = EmptyText

LLMCall(out, res) ==
    /\ calls' = res.calls
    /\ outcome' = out
    /\ request' = NoneVal
    /\ response' = res.response

\* invoke(s) on either compiled graph, for s among the given states: the
\* entry point is the orchestrator.
Invoke(states) ==
    /\ NoCall
    /\ graph \in {"simple", "conditional"}
    /\ node = "orchestrator"
    /\ state \in states
    /\ last = "init"
    /\ input_intact = TRUE
    /\ next_action = NoAction
    /\ prePause = EmptyDict
    /\ \E openai_key \in BOOLEAN, anthropic_key \in BOOLEAN :
          LET m == initialize_default_services(openai_key, anthropic_key)
          IN  /\ services = m.services
              /\ default_service = m.default_service
              /\ fallback_chain = m.fallback_chain
    /\ calls = <<>>
    /\ outcome = NoOutcome
    /\ request = NoneVal
    /\ response = EmptyText
    /\ faults = 0

Init == Invoke(InitialStates)

RunOrchestrator ==
    /\ UNCHANGED <<input, output, project>>
    /\ node = "orchestrator"
    /\ Invoked("orchestrator", orchestrator_node(state))
    /\ next_action' = determine_next_action(Get(state, "workflow_status", INITIALIZED), state)
    /\ NoLLMCall
    /\ UNCHANGED <<prePause, graph, services, default_service, fallback_chain>>

RunPlanner ==
    /\ UNCHANGED <<input, output, project>>
    /\ node = "planner"
    /\ \/ Faulted("planner", planner_node(state, TRUE, EmptyText)) /\ NoLLMCall
       \/ \E out \in AgentOutcomes("planner", services) :
             LET res == generate_agent_response(thisManager, out)
             IN  /\ Invoked("planner", planner_node(state, FALSE, res.response))
                 /\ LLMCall(out, res)
    /\ UNCHANGED <<next_action, prePause, graph, services, default_service, fallback_chain>>

RunEnhancer ==
    /\ UNCHANGED <<input, output, project>>
    /\ node = "enhancer"
    /\ \/ Faulted("enhancer", enhancer_node(state, TRUE, EmptyText, 0)) /\ NoLLMCall
       \/ \E out \in AgentOutcomes("enhancer", services), score \in Scores :
             LET res == generate_agent_response(thisManager, out)
             IN  /\ Invoked("enhancer", enhancer_node(state, FALSE, res.response, score))
                 /\ LLMCall(out, res)
    /\ UNCHANGED <<next_action, prePause, graph, services, default_service, fallback_chain>>

RunCoder ==
    /\ UNCHANGED <<input, output, project>>
    /\ node = "coder"
    /\ \/ Faulted("coder", coder_node(state, TRUE, EmptyText)) /\ NoLLMCall
       \/ \E out \in AgentOutcomes("coder", services) :
             LET res == generate_agent_response(thisManager, out)
             IN  /\ Invoked("coder", coder_node(state, FALSE, res.response))
                 /\ LLMCall(out, res)
    /\ UNCHANGED <<next_action, prePause, graph, services, default_service, fallback_chain>>

RunTester ==
    /\ UNCHANGED <<input, output, project>>
    /\ node = "tester"
    /\ \/ Faulted("tester", tester_node(state, TRUE, CHOOSE t \in TestResults : TRUE, EmptyText))
            /\ NoLLMCall
       \/ \E out \in AgentOutcomes("tester", services), test_results \in TestResults :
             LET res == generate_agent_response(thisManager, out)
             IN  /\ Invoked("tester", tester_node(state, FALSE, test_results, res.response))
                 /\ LLMCall(out, res)
    /\ UNCHANGED <<next_action, prePause, graph, services, default_service, fallback_chain>>

RunMemory ==
    /\ UNCHANGED <<input, output, project>>
    /\ node = "memory"
    /\ \/ Faulted("memory", memory_node(state, TRUE, <<>>))
       \/ \E relevant_context \in {<<>>, MemoryHit} :
             /\ relevant_context # <<>> =>
                   Len(Get(state, "context", EmptyText)) + 4 <= MaxContextLines
             /\ Invoked("memory", memory_node(state, FALSE, relevant_context))
    /\ NoLLMCall
    /\ UNCHANGED <<next_action, prePause, graph, services, default_service, fallback_chain>>

RunToolbox ==
    /\ UNCHANGED <<input, output, project>>
    /\ node = "toolbox"
    /\ \/ Faulted("toolbox", toolbox_node(state, TRUE))
       \/ Invoked("toolbox", toolbox_node(state, FALSE))
    /\ NoLLMCall
    /\ UNCHANGED <<next_action, prePause, graph, services, default_service, fallback_chain>>

Next ==
    \/ RunOrchestrator
    \/ RunPlanner
    \/ RunEnhancer
    \/ RunCoder
    \/ RunTester
    \/ RunMemory
    \/ RunToolbox

Spec == Init /\ [][Next]_vars

\* A run from the state the workflow test hands in.
InitClean == Invoke({CleanState})

\* The compiled graph runs the node its edges lead to: a step that makes the
\* pending node the last one run.  Every Run action is enabled whenever its
\* node is pending, so this asks of Next no step it cannot take.
RunsPendingNode ==
    /\ node # END
    /\ last' = node

FairSpec == InitClean /\ [][Next]_vars /\ WF_last(RunsPendingNode)

-----------------------------------------------------------------------------
(* Properties of a graph run *)

StatusOf(st) == Get(st, "workflow_status", NoneVal)

AgentNames == {"planner", "coder", "tester", "enhancer"}

\* The key under which each node reports its own status.
StatusKey(name) ==
    CASE name = "orchestrator" -> "workflow_status"
      [] name = "planner" -> "planning_status"
      [] name = "coder" -> "code_generation_status"
      [] name = "tester" -> "testing_status"
      [] name = "enhancer" -> "enhancement_status"
      [] name = "memory" -> "memory_status"
      [] name = "toolbox" -> "toolbox_status"

SomeAgentFailed ==
    \E name \in NodeNames \ {"orchestrator"} :
        Get(state, StatusKey(name), NoneVal) = "failed"

\* C2: from workflow_status = initialized with empty agent_results, a run of
\* the graph that invokes the agents (the conditional one) in which no
\* invoked agent ever fails and every LLM call is answered eventually reaches
\* workflow_status = completed.
C2_EventuallyCompleted ==
    (graph = "conditional" /\ []~(SomeAgentFailed \/ response = Sentinel))
        => <>(StatusOf(state) = COMPLETED)

\* C3: when the state carries an error set by an agent node, the next
\* orchestrator step sets workflow_status to failed with no next agent, and
\* the run stops.
C3_ErrorForcesFailed ==
    [][ ("error" \in DOMAIN state /\ last \in NodeNames \ {"orchestrator"}
            /\ last' = "orchestrator")
        => (StatusOf(state') = FAILED
            /\ Get(state', "next_agent", NoneVal) = NoneVal
            /\ node' = END) ]_vars

\* C4: once a node has left workflow_status completed or failed, the routing
\* is at END, no node runs again and the state stays as it is.
C4_TerminalStatuses ==
    /\ [](last # "init" /\ StatusOf(state) \in {COMPLETED, FAILED} => node = END)
    /\ [][ (last # "init" /\ StatusOf(state) \in {COMPLETED, FAILED})
           => (state' = state /\ last' = last) ]_vars

\* C5: the node that runs after an orchestrator step is the agent the step
\* named in next_agent, and every agent that runs is the one named.
C5_RunsSelectedAgent ==
    [][ (last = "orchestrator" \/ last' # "orchestrator")
        => last' = Get(state, "next_agent", NoneVal) ]_vars

C10_SentinelIsFailure ==
    /\ (last = "coder" /\ response = Sentinel)
          => /\ Get(state, "code_generation_status", NoneVal) # "completed"
             /\ Get(state, "generated_code", EmptyText) # Sentinel
    /\ (last = "planner" /\ response = Sentinel)
          => Get(state, "planning_status", NoneVal) # "completed"

-----------------------------------------------------------------------------
(* The router on its own: determine_next_action and orchestrator_node applied
   to states with every status and every combination of completion flags *)

\* The flag determine_next_action reads in each agent's entry.
FlagKey(agent) ==
    CASE agent = "planner" -> "planning_status"
      [] agent = "coder" -> "code_generation_status"
      [] agent = "tester" -> "testing_status"
      [] agent = "enhancer" -> "enhancement_status"

\* What agent_results holds for one agent: no entry, an entry without the
\* flag, or the flag with one of three values.
FlagChoices == {"no_entry", "no_flag", "completed", "failed", "in_progress"}

AgentResultsOf(choice) ==
    [a \in {x \in AgentNames : choice[x] # "no_entry"} |->
        IF choice[a] = "no_flag" THEN EmptyDict
        ELSE [k \in {FlagKey(a)} |-> choice[a]]]

\* A status string outside the enumeration.
UnknownStatus == "archived"

RouterStates ==
    {[agent_results |-> AgentResultsOf(choice)] : choice \in [AgentNames -> FlagChoices]}
    \cup {[k \in {} |-> NoneVal]}
    \cup {[workflow_status |-> ws, agent_results |-> AgentResultsOf(choice)] :
             ws \in WorkflowStatus \cup {UnknownStatus}, choice \in [AgentNames -> FlagChoices]}

NoGraph ==
    /\ graph = "none"
    /\ node = END

NoManager ==
    /\ services = {}
    /\ default_service = NoneVal
    /\ fallback_chain = <<>>
    /\ calls = <<>>
    /\ outcome = NoOutcome
    /\ request = NoneVal
    /\ response = EmptyText

InitRouter ==
    /\ NoCall
    /\ state \in RouterStates
    /\ last = "init"
    /\ input_intact = TRUE
    /\ next_action = NoAction
    /\ prePause = EmptyDict
    /\ faults = 0
    /\ NoGraph
    /\ NoManager

DetermineNextAction ==
    /\ UNCHANGED <<input, output, project>>
    /\ next_action' = determine_next_action(Get(state, "workflow_status", INITIALIZED), state)
    /\ last' = "determine_next_action"
    /\ UNCHANGED <<state, input_intact, prePause, graph, node, services, default_service,
                   fallback_chain, calls, outcome, request, response, faults>>

OrchestratorStep ==
    /\ UNCHANGED <<input, output, project>>
    /\ LET r == orchestrator_node(state)
       IN  /\ state' = r.updated_state
           /\ input_intact' = (r.state = state)
    /\ next_action' = determine_next_action(Get(state, "workflow_status", INITIALIZED), state)
    /\ last' = "orchestrator"
    /\ UNCHANGED <<prePause, graph, node, services, default_service,
                   fallback_chain, calls, outcome, request, response, faults>>

NextRouter ==
    \/ DetermineNextAction
    \/ OrchestratorStep

SpecRouter == InitRouter /\ [][NextRouter]_vars

WorkingStatuses == {PLANNING, CODING, TESTING, ENHANCING}

\* The fixed sequence and the agent of each status.
NextInSequence(ws) ==
    CASE ws = INITIALIZED -> PLANNING
      [] ws = PLANNING -> CODING
      [] ws = CODING -> TESTING
      [] ws = TESTING -> ENHANCING
      [] ws = ENHANCING -> COMPLETED

AgentOf(ws) ==
    CASE ws = PLANNING -> "planner"
      [] ws = CODING -> "coder"
      [] ws = TESTING -> "tester"
      [] ws = ENHANCING -> "enhancer"
      [] OTHER -> NoneVal

\* The status determine_next_action was called with.
GivenStatus == Get(state, "workflow_status", INITIALIZED)

\* agent_results holds the completion flag 'completed' for the agent of ws.
ReportsCompleted(ws) ==
    LET agent_results == Get(state, "agent_results", EmptyDict)
    IN  /\ AgentOf(ws) \in DOMAIN agent_results
        /\ StatusKey(AgentOf(ws)) \in DOMAIN agent_results[AgentOf(ws)]
        /\ agent_results[AgentOf(ws)][StatusKey(AgentOf(ws))] = "completed"

\* C1: from a working status the router advances to the next status of the
\* sequence, naming its agent, exactly when agent_results holds 'completed'
\* for the current agent, and otherwise stays with the current agent; from
\* initialized it goes to planning with the planner.
C1_TransitionRule ==
    last = "determine_next_action" =>
        /\ GivenStatus = INITIALIZED =>
              next_action.status = PLANNING /\ next_action.agent = "planner"
        /\ GivenStatus \in WorkingStatuses =>
              IF ReportsCompleted(GivenStatus)
              THEN /\ next_action.status = NextInSequence(GivenStatus)
                   /\ next_action.agent = AgentOf(NextInSequence(GivenStatus))
              ELSE /\ next_action.status = GivenStatus
                   /\ next_action.agent = AgentOf(GivenStatus)

\* The spec's example: coding with the coder's flag completed gives testing
\* and the tester.
C1_Witness ==
    /\ last = "determine_next_action"
    /\ GivenStatus = CODING
    /\ ReportsCompleted(CODING)
    /\ next_action.status = TESTING
    /\ next_action.agent = "tester"

\* C7: for every status, in or outside the enumeration, and every value of
\* the completion flags, determine_next_action returns a status of the
\* enumeration and an agent among planner, coder, tester, enhancer or None,
\* and does not raise.
C7_RouterTotal ==
    last = "determine_next_action" =>
        /\ ~HasRaised(next_action)
        /\ next_action.status \in WorkflowStatus
        /\ next_action.agent \in AgentNames \cup {NoneVal}

\* The router was given a status outside the enumeration.
C7_Witness ==
    /\ last = "determine_next_action"
    /\ GivenStatus = UnknownStatus
    /\ next_action.status = FAILED
    /\ next_action.agent = NoneVal

-----------------------------------------------------------------------------
(* Pausing and resuming a workflow between orchestrator steps *)

PauseStates ==
    {PreparedState}
        \cup {StateWith(ws, ar) : ws \in WorkflowStatus, ar \in {EmptyDict, AllCompleted}}

InitPause ==
    /\ NoCall
    /\ state \in PauseStates
    /\ last = "init"
    /\ input_intact = TRUE
    /\ next_action = NoAction
    /\ prePause = EmptyDict
    /\ faults = 0
    /\ NoGraph
    /\ NoManager

\* pause_workflow(state); prePause keeps the mapping it was called with.
PauseWorkflow ==
    /\ UNCHANGED <<input, output, project>>
    /\ last # "pause_workflow"
    /\ state' = pause_workflow(state)
    /\ prePause' = state
    /\ last' = "pause_workflow"
    /\ UNCHANGED <<input_intact, next_action, graph, node, services, default_service,
                   fallback_chain, calls, outcome, request, response, faults>>

\* resume_workflow(state), directly after a pause or at any other time.
ResumeWorkflow ==
    /\ UNCHANGED <<input, output, project>>
    /\ state' = resume_workflow(state)
    /\ last' = IF last = "pause_workflow" THEN "resume_after_pause" ELSE "resume_workflow"
    /\ UNCHANGED <<input_intact, next_action, prePause, graph, node, services, default_service,
                   fallback_chain, calls, outcome, request, response, faults>>

NextPause ==
    \/ PauseWorkflow
    \/ ResumeWorkflow
    \/ OrchestratorStep

SpecPause == InitPause /\ [][NextPause]_vars

ResumableStatuses == {INITIALIZED, PLANNING, CODING, TESTING, ENHANCING}

\* Every key of `before` other than workflow_status is in `after` with its value.
KeepsOtherKeys(before, after) ==
    \A k \in DOMAIN before \ {"workflow_status"} :
        k \in DOMAIN after /\ after[k] = before[k]

\* C6: pausing a state gives workflow_status = paused, resuming the paused
\* state gives back the workflow_status the state had before the pause (for
\* the five resumable statuses), and neither drops another key.
C6_PauseResumeRoundTrip ==
    /\ last = "pause_workflow" =>
          StatusOf(state) = PAUSED /\ KeepsOtherKeys(prePause, state)
    /\ (last = "resume_after_pause" /\ StatusOf(prePause) \in ResumableStatuses) =>
          StatusOf(state) = StatusOf(prePause) /\ KeepsOtherKeys(prePause, state)

-----------------------------------------------------------------------------
(* The LLM service manager on its own *)

InitLLM ==
    /\ NoCall
    /\ state = EmptyDict
    /\ last = "init"
    /\ input_intact = TRUE
    /\ next_action = NoAction
    /\ prePause = EmptyDict
    /\ faults = 0
    /\ NoGraph
    /\ \E openai_key \in BOOLEAN, anthropic_key \in BOOLEAN :
          LET m == initialize_default_services(openai_key, anthropic_key)
          IN  /\ services = m.services
              /\ default_service = m.default_service
              /\ fallback_chain = m.fallback_chain
    /\ calls = <<>>
    /\ outcome = NoOutcome
    /\ request = NoneVal
    /\ response = EmptyText

\* llm_manager.add_service(name, service)
AddService ==
    /\ UNCHANGED <<input, output, project>>
    /\ \E name \in Providers :
           LET m == add_service(thisManager, name)
           IN  /\ services' = m.services
               /\ default_service' = m.default_service
               /\ fallback_chain' = m.fallback_chain
               /\ last' = "add_service"
               /\ UNCHANGED <<state, input_intact, next_action, prePause, graph, node,
                              calls, outcome, request, response, faults>>

\* llm_manager.generate_response(prompt, service_name=...)
GenerateResponse ==
    /\ UNCHANGED <<input, output, project>>
    /\ \E service_name \in Providers \cup {NoneVal}, out \in Outcomes :
           LET res == generate_response(thisManager, service_name, out)
           IN  /\ calls' = res.calls
               /\ response' = res.response
               /\ outcome' = out
               /\ request' = service_name
               /\ last' = "generate_response"
               /\ UNCHANGED <<state, input_intact, next_action, prePause, graph, node,
                              services, default_service, fallback_chain, faults>>

NextLLM ==
    \/ AddService
    \/ GenerateResponse

SpecLLM == InitLLM /\ [][NextLLM]_vars

\* The providers the call may try, in the order it may try them: the named
\* one when it is registered, then the fallback chain without it.
Candidates ==
    LET NotNamed(p) == p # request
    IN  (IF request # NoneVal /\ request \in services THEN <<request>> ELSE <<>>)
            \o SelectSeq(fallback_chain, NotNamed)

AllCalledRaised == \A i \in 1..Len(calls) : outcome[calls[i]].raises

-----------------------------------------------------------------------------
(* External subprocesses: the build started by main.py and the syntax checks
   of TestRunner in agents/tester.py *)

\* The variables of the workflow graph and of the LLM manager.
graphVars == <<state, input_intact, next_action, prePause, graph, node, services,
               default_service, fallback_chain, calls, outcome, request, response, faults>>

\* No graph runs and no manager is in use.
GraphIdle ==
    /\ state = EmptyDict
    /\ input_intact = TRUE
    /\ next_action = NoAction
    /\ prePause = EmptyDict
    /\ faults = 0
    /\ NoGraph
    /\ NoManager

\* An exception of the named class.
Exc(name) == [exception |-> name]

\* A message is a line of one token.
Msg(text) == <<text>>

\* timeout=120 of the build, timeout=10 and timeout=15 of the syntax checks
BuildTimeout == 120
PythonCheckTimeout == 10
JavascriptCheckTimeout == 10
TypescriptCheckTimeout == 15

\* subprocess.run(cmd, capture_output=True, text=True, timeout=timeout) on a
\* child that cannot be started (it raises the child's error), that runs
\* longer than the timeout (TimeoutExpired), or that ends with an exit code.
subprocess_run(child, timeout) ==
    IF ~child.starts THEN Exc(child.error)
    ELSE IF child.seconds > timeout THEN Exc("TimeoutExpired")
    ELSE [returncode |-> child.returncode, stdout |-> child.stdout, stderr |-> child.stderr]

\* 'error' in line.lower() or 'failed' in line.lower(); 'warning' in line.lower()
IsErrorLine(line) ==
    Contains(Lower(line), <<"error">>) \/ Contains(Lower(line), <<"failed">>)

IsWarningLine(line) == ~IsErrorLine(line) /\ Contains(Lower(line), <<"warning">>)

StripEach(lines) == [i \in 1..Len(lines) |-> Strip(lines[i])]

\* The build without its `except subprocess.TimeoutExpired` and `except Exception`.
compile_and_check_website_unguarded(project_dir_exists, child) ==
    LET run == IF project_dir_exists THEN subprocess_run(child, BuildTimeout)
               ELSE Exc("FileNotFoundError")
    IN  IF HasRaised(run) THEN run
        ELSE [success |-> run.returncode = 0,
              errors |-> IF run.returncode = 0 THEN <<>>
                         ELSE StripEach(SelectSeq(run.stdout \o run.stderr, IsErrorLine)),
              warnings |-> IF run.returncode = 0 THEN <<>>
                           ELSE StripEach(SelectSeq(run.stdout \o run.stderr, IsWarningLine)),
              build_output |-> run.stdout \o run.stderr]

\* compile_and_check_website(project_dir); os.chdir(project_dir) raises
\* FileNotFoundError when the directory is missing.  stdout and stderr are
\* texts of whole lines.
compile_and_check_website(project_dir_exists, child) ==
    LET compilation_result ==
            [success |-> FALSE, errors |-> <<>>, warnings |-> <<>>, build_output |-> <<>>]
        run == IF project_dir_exists THEN subprocess_run(child, BuildTimeout)
               ELSE Exc("FileNotFoundError")
    IN  IF HasRaised(run)
        THEN CASE run.exception = "TimeoutExpired" ->
                    [compilation_result EXCEPT
                        !.errors = <<Msg("Build timed out after 2 minutes")>>]
               [] run.exception = "FileNotFoundError" ->
                    [compilation_result EXCEPT
                        !.errors = <<Msg("npm not found - Node.js not installed")>>]
               [] OTHER ->
                    [compilation_result EXCEPT
                        !.errors = <<Msg("Compilation error"), Msg(run.exception)>>]
        ELSE LET build_output == run.stdout \o run.stderr
             IN  IF run.returncode = 0
                 THEN [compilation_result EXCEPT !.success = TRUE,
                                                 !.build_output = build_output]
                 ELSE [compilation_result EXCEPT
                          !.build_output = build_output,
                          !.errors = StripEach(SelectSeq(build_output, IsErrorLine)),
                          !.warnings = StripEach(SelectSeq(build_output, IsWarningLine))]

\* The working directory after compile_and_check_website was called in dir:
\* os.chdir(original_dir) is the last statement of the try block, reached only
\* when the child did not raise; a chdir that raised has not moved.
CwdAfterBuild(dir, project_dir_exists, child) ==
    IF project_dir_exists /\ HasRaised(subprocess_run(child, BuildTimeout))
    THEN Append(dir, ProjectName)
    ELSE dir

\* What `npm run build` finds when it starts: the directory it runs in and the
\* generated files below it.
BuildsAfter(was, project_dir_exists, child) ==
    IF project_dir_exists /\ child.starts
    THEN Append(was.built,
                [dir |-> Append(was.cwd, ProjectName),
                 files |-> IF was.cwd = StartDir THEN was.app_files ELSE EmptyDict])
    ELSE was.built

\* The process and the project tree after compile_and_check_website.
ProjectAfterBuild(was, project_dir_exists, child) ==
    [was EXCEPT !.cwd = CwdAfterBuild(was.cwd, project_dir_exists, child),
                !.built = BuildsAfter(was, project_dir_exists, child)]

Languages == {"python", "javascript", "typescript", "rust"}

CheckTimeout(language) ==
    CASE language = "python" -> PythonCheckTimeout
      [] language = "javascript" -> JavascriptCheckTimeout
      [] language = "typescript" -> TypescriptCheckTimeout

\* TestRunner._check_python_syntax, _check_javascript_syntax and
\* _check_typescript_syntax: the same body with its own command and timeout.
\* stderr is a text of whole lines, so stderr.split('\n') ends with an empty line.
\* Writing the temporary file raises OSError when file_written is false.
check_syntax(language, file_written, child) ==
    LET run == IF file_written THEN subprocess_run(child, CheckTimeout(language))
               ELSE Exc("OSError")
    IN  IF HasRaised(run)
        THEN IF run.exception = "TimeoutExpired"
             THEN [is_valid |-> FALSE, errors |-> <<Msg("Syntax check timed out")>>,
                   warnings |-> <<>>]
             ELSE [is_valid |-> FALSE, errors |-> <<Msg(run.exception)>>, warnings |-> <<>>]
        ELSE [is_valid |-> run.returncode = 0,
              errors |-> IF run.stderr # <<>> THEN run.stderr \o << <<>> >> ELSE <<>>,
              warnings |-> <<>>]

\* TestRunner.run_syntax_check(code, language)
run_syntax_check(language, file_written, child) ==
    IF language \in {"python", "javascript", "typescript"}
    THEN check_syntax(language, file_written, child)
    ELSE [is_valid |-> TRUE, errors |-> <<>>,
          warnings |-> <<Msg("Language not supported for syntax checking")>>]

\* What a child process can do.
BuildLog ==
    << <<"Compiled", " ", "with", " ", "warning">>,
       <<" ", "Type", " ", "error", ":", " ", "x">>,
       <<"Build", " ", "Failed">>,
       <<"info", " ", "done">> >>

ErrLog == << <<"SyntaxError", ":", " ", "invalid", " ", "syntax">> >>

Children ==
    [starts : {FALSE}, error : {"FileNotFoundError", "PermissionError"}, seconds : {0},
     returncode : {0}, stdout : {<<>>}, stderr : {<<>>}]
    \cup
    [starts : {TRUE}, error : {NoneVal}, seconds : {5, 12, 120, 121},
     returncode : {0, 1}, stdout : {<<>>, BuildLog}, stderr : {<<>>, ErrLog}]

\* The deepest the working directory is followed below the start directory.
MaxNesting == 2

InitProcess ==
    /\ GraphIdle
    /\ NoCall
    /\ last = "init"

\* compile_and_check_website("my-new-website"), the name being looked up in
\* the working directory of the moment.
CompileAndCheckWebsite ==
    /\ Len(project.cwd) < MaxNesting
    /\ \E project_dir_exists \in BOOLEAN, child \in Children :
        /\ input' = [project_dir_exists |-> project_dir_exists, child |-> child,
                     cwd |-> project.cwd]
        /\ output' = compile_and_check_website(project_dir_exists, child)
        /\ project' = ProjectAfterBuild([project EXCEPT !.built = <<>>],
                                        project_dir_exists, child)
        /\ last' = "compile_and_check_website"
        /\ UNCHANGED graphVars

RunSyntaxCheck ==
    \E language \in Languages, file_written \in BOOLEAN, child \in Children :
        /\ input' = [language |-> language, file_written |-> file_written, child |-> child]
        /\ output' = run_syntax_check(language, file_written, child)
        /\ last' = "run_syntax_check"
        /\ UNCHANGED <<graphVars, project>>

NextProcess ==
    \/ CompileAndCheckWebsite
    \/ RunSyntaxCheck

SpecProcess == InitProcess /\ [][NextProcess]_vars

\* C12: a build that runs past its 120 s limit returns success = false with
\* the timeout message among its errors, a syntax check that runs past its
\* limit returns is_valid = false with 'Syntax check timed out', and neither
\* call raises.
C12_TimeoutIsFailedStep ==
    /\ (/\ last = "compile_and_check_website"
        /\ input.project_dir_exists
        /\ input.child.starts
        /\ input.child.seconds > BuildTimeout)
          => /\ ~HasRaised(output)
             /\ output.success = FALSE
             /\ \E i \in 1..Len(output.errors) :
                   output.errors[i] = Msg("Build timed out after 2 minutes")
    /\ (/\ last = "run_syntax_check"
        /\ input.language \in {"python", "javascript", "typescript"}
        /\ input.file_written
        /\ input.child.starts
        /\ input.child.seconds > CheckTimeout(input.language))
          => /\ ~HasRaised(output)
             /\ output.is_valid = FALSE
             /\ output.errors = <<Msg("Syntax check timed out")>>

\* The build ran for 121 seconds.
C12_Witness ==
    /\ last = "compile_and_check_website"
    /\ input.project_dir_exists
    /\ input.child.starts
    /\ input.child.seconds = 121
    /\ output.success = FALSE
    /\ output.errors = <<Msg("Build timed out after 2 minutes")>>

-----------------------------------------------------------------------------
(* Regular expressions of main.py's repair passes, on token sequences.  A
   word (\w+) is a run of word tokens, white space (\s) a run of blank
   tokens, and a literal of the expression is a token of its own. *)

\* The tokens that hold no word character; every other token is a word or a
\* part of one.
NonWordTokens ==
    {" ", "\t", "\n", "(", ")", ":", ";", "<", ">", "/", "{", "}", "=", "\"", "'", ".", ",",
     "@", "-", "*", "\"use client\"", "'use client'"}

IsWordTok(tok) == tok \notin NonWordTokens

\* \s matches blanks and the line break
IsWs(tok) == tok \in {" ", "\t", "\n"}

\* The elements of an expression: a literal token, an optional token (t?),
\* \s*, \s+, \w+, one token of a set ([...]), and [^...]* and [^...]+ over the
\* tokens outside a set; cap marks a group.
L(t) == [k |-> "lit", tok |-> t, set |-> {}, cap |-> FALSE]
Opt(t) == [k |-> "opt", tok |-> t, set |-> {}, cap |-> FALSE]
S0 == [k |-> "ws0", tok |-> "", set |-> {}, cap |-> FALSE]
S1 == [k |-> "ws1", tok |-> "", set |-> {}, cap |-> FALSE]
W == [k |-> "word", tok |-> "", set |-> {}, cap |-> FALSE]
WG == [k |-> "word", tok |-> "", set |-> {}, cap |-> TRUE]
In(set) == [k |-> "in", tok |-> "", set |-> set, cap |-> FALSE]
NotIn(set) == [k |-> "not", tok |-> "", set |-> set, cap |-> FALSE]
NotInG(set) == [k |-> "not", tok |-> "", set |-> set, cap |-> TRUE]
NotIn1G(set) == [k |-> "not1", tok |-> "", set |-> set, cap |-> TRUE]

\* Whether a token belongs to the class of a repeated element.
InClass(e, tok) ==
    CASE e.k \in {"ws0", "ws1"} -> IsWs(tok)
      [] e.k = "word" -> IsWordTok(tok)
      [] e.k \in {"not", "not1"} -> tok \notin e.set

\* The least number of a set of naturals.
Least(set) == CHOOSE i \in set : \A j \in set : i <= j

\* The length of the longest run of the element's class from position i.
RunLen(seq, i, e) ==
    Least({j \in i..(Len(seq) + 1) : j > Len(seq) \/ ~InClass(e, seq[j])}) - i

NoMatch == [ok |-> FALSE, end |-> 0, caps |-> <<>>]

\* The greatest number of a set of naturals.
Greatest(set) == CHOOSE i \in set : \A j \in set : j <= i

\* The groups once the element e has taken the n tokens from position i.
CapsWith(seq, i, e, caps, n) ==
    IF e.cap THEN Append(caps, SubSeq(seq, i, i + n - 1)) ELSE caps

\* The elements that take exactly one token, and whether a token fits one.
IsSingle(e) == e.k \in {"lit", "in"}

Fits(e, tok) == IF e.k = "lit" THEN tok = e.tok ELSE tok \in e.set

\* The first element from j on that is optional or repeated; one past the
\* expression when there is none.
NextRepeat(pat, j) == Least({k \in j..(Len(pat) + 1) : k > Len(pat) \/ ~IsSingle(pat[k])})

\* The one-token elements pat[j..e-1] match the tokens from position i on.
SinglesMatch(seq, i, pat, j, e) ==
    /\ i + (e - j) - 1 <= Len(seq)
    /\ \A k \in j..(e - 1) : Fits(pat[k], seq[i + (k - j)])

\* The fewest and the most tokens an optional or repeated element takes at i.
MinOf(e) == IF e.k \in {"ws1", "word", "not1"} THEN 1 ELSE 0

MaxOf(seq, i, e) ==
    IF e.k = "opt" THEN (IF i <= Len(seq) /\ seq[i] = e.tok THEN 1 ELSE 0)
    ELSE RunLen(seq, i, e)

\* re.match of pat[j..] at position i: greedy, giving back one token at a
\* time.  end is the position after the match, caps the groups in order.
RECURSIVE MatchFrom(_, _, _, _, _)
RECURSIVE TryDown(_, _, _, _, _, _)

\* The element pat[j] taking the most tokens with which the rest of the
\* expression matches, fits being the numbers with which it does: what giving
\* back one token at a time arrives at.
TryDown(seq, i, pat, j, caps, fits) ==
    IF fits = {} THEN NoMatch
    ELSE MatchFrom(seq, i + Greatest(fits), pat, j + 1,
                   CapsWith(seq, i, pat[j], caps, Greatest(fits)))

\* The one-token elements up to the next optional or repeated one, then that one.
MatchFrom(seq, i, pat, j, caps) ==
    CASE ~SinglesMatch(seq, i, pat, j, NextRepeat(pat, j)) -> NoMatch
      [] NextRepeat(pat, j) > Len(pat) ->
            [ok |-> TRUE, end |-> i + (NextRepeat(pat, j) - j), caps |-> caps]
      [] OTHER ->
            LET e == NextRepeat(pat, j)
                at == i + (e - j)
            IN  TryDown(seq, at, pat, e, caps,
                        {k \in MinOf(pat[e])..MaxOf(seq, at, pat[e]) :
                            MatchFrom(seq, at + k, pat, e + 1,
                                      CapsWith(seq, at, pat[e], caps, k)).ok})

\* The positions from i on where pat matches.
MatchStarts(seq, pat, i, last_start) ==
    {k \in i..last_start : MatchFrom(seq, k, pat, 1, <<>>).ok}

\* A match of re.search with the position it starts at.
Found(r, k) == [ok |-> r.ok, start |-> k, end |-> r.end, caps |-> r.caps]

FoundAt(seq, pat, k) == Found(MatchFrom(seq, k, pat, 1, <<>>), k)

FirstOf(seq, pat, starts) ==
    IF starts = {} THEN Found(NoMatch, 0) ELSE FoundAt(seq, pat, Least(starts))

\* re.search(pat, seq): the leftmost match, from position i on.
SearchFrom(seq, pat, i) == FirstOf(seq, pat, MatchStarts(seq, pat, i, Len(seq) + 1))

\* bool(re.search(pat, seq)); nothing is found in the empty string.
Search(seq, pat) == seq # <<>> /\ SearchFrom(seq, pat, 1).ok

\* A replacement: literal tokens and group references \1, \2.
T(t) == [g |-> 0, tok |-> t]
G(n) == [g |-> n, tok |-> ""]

RECURSIVE Expand(_, _)
Expand(repl, caps) ==
    IF repl = <<>> THEN <<>>
    ELSE (IF Head(repl).g = 0 THEN <<Head(repl).tok>> ELSE caps[Head(repl).g])
             \o Expand(Tail(repl), caps)

\* re.sub(pat, repl, seq): every non-overlapping match, left to right.  No
\* expression of the passes matches the empty string.
RECURSIVE SubFrom(_, _, _, _)
RECURSIVE SubMatch(_, _, _, _, _)
SubFrom(seq, pat, repl, i) == SubMatch(seq, pat, repl, i, SearchFrom(seq, pat, i))

SubMatch(seq, pat, repl, i, r) ==
    IF ~r.ok THEN SubSeq(seq, i, Len(seq))
    ELSE SubSeq(seq, i, r.start - 1) \o Expand(repl, r.caps) \o SubFrom(seq, pat, repl, r.end)

Sub(seq, pat, repl) == IF seq = <<>> THEN seq ELSE SubFrom(seq, pat, repl, 1)

\* The literal tokens of a text as an expression, and as a replacement.
Lits(toks) == [i \in 1..Len(toks) |-> L(toks[i])]
Ts(toks) == [i \in 1..Len(toks) |-> T(toks[i])]

\* content.replace(pat, rep) on a whole file
ReplaceAll(toks, pat, rep) == Sub(toks, Lits(pat), Ts(rep))

-----------------------------------------------------------------------------
(* main.py: the passes of force_syntax_correction *)

Quotes == {"\"", "'"}

\* \(\s*:\s*any\s*\)
AnyParamRe == <<L("("), S0, L(":"), S0, L("any"), S0, L(")")>>

\* function\s+(\w+): the name of the first function of the line
FunctionNameRe == <<L("function"), S1, WG>>

\* replacement.replace('Component', func_name)
RECURSIVE Renamed(_, _)
Renamed(toks, func_name) ==
    IF toks = <<>> THEN <<>>
    ELSE (IF Head(toks) = "Component" THEN func_name ELSE <<Head(toks)>>)
             \o Renamed(Tail(toks), func_name)

\* The replacement of an entry of patterns_to_fix for the line's func_match.
ReplacementFor(func_match, toks) ==
    Ts(IF func_match.ok THEN Renamed(toks, func_match.caps[1]) ELSE toks)

\* One entry of patterns_to_fix applied to the line.
FixPattern(line, pat, toks) ==
    IF Search(line, pat)
    THEN Sub(line, pat, ReplacementFor(SearchFrom(line, FunctionNameRe, 1), toks))
    ELSE line

ChildrenProps ==
    <<"{", " ", "children", ":", " ", "React", ".", "ReactNode", " ", "}">>

\* The five entries of patterns_to_fix, in order.
FunctionPatterns(line) ==
    FixPattern(
        FixPattern(
            FixPattern(
                FixPattern(
                    FixPattern(line,
                        <<L("function"), S1, W, S0>> \o AnyParamRe,
                        <<"function", " ", "Component", "(", ")">>),
                    <<L("export"), S1, L("default"), S1, L("function"), S1, W, S0>>
                        \o AnyParamRe,
                    <<"export", " ", "default", " ", "function", " ", "Component", "(", ")">>),
                AnyParamRe, <<"(", ")">>),
            <<L("}"), S0, L(":"), S0, L("{"), S0, NotIn({"}"}), L("}"), S0, L(":"), S0,
              L("any"), S0, L(")")>>,
            <<"}", ":", " ">> \o ChildrenProps \o <<")">>),
        <<L("}"), S0, L(":"), S0, L("any"), S0, L(")")>>, <<")">>)

\* Fix any remaining malformed function declarations
FixParentheses(fixed_line) ==
    IF Contains(fixed_line, <<"function">>) /\ Contains(fixed_line, <<"(">>)
       /\ Contains(fixed_line, <<")">>)
    THEN Sub(Sub(fixed_line, <<L("("), S0, L(":"), S0>>, Ts(<<"(">>)),
             <<S0, L(":"), S0, L(")")>>, Ts(<<")">>))
    ELSE fixed_line

\* The line of aggressive_fix_function_syntax.
FixFunctionLine(line) == Then(FunctionPatterns(line), FixParentheses)

aggressive_fix_function_syntax(content) == MapLines(FixFunctionLine, content)

\* <\s*(\w+)\s*; -> <\1 and ;\s*(\w+)\s*> -> \1>
TagSemicolons(line) ==
    Sub(Sub(line, <<L("<"), S0, WG, S0, L(";")>>, <<T("<"), G(1)>>),
        <<L(";"), S0, WG, S0, L(">")>>, <<G(1), T(">")>>)

\* (\w+)\s*=\s*["'] ([^"']*) ["']\s*; -> \1="\2" and ;\s*(\w+)\s*=\s*["'] -> ' \1="'
AttributeSemicolons(line) ==
    Sub(Sub(line, <<WG, S0, L("="), S0, In(Quotes), NotInG(Quotes), In(Quotes), S0, L(";")>>,
            <<G(1), T("="), T("\""), G(2), T("\"")>>),
        <<L(";"), S0, WG, S0, L("="), S0, In(Quotes)>>, <<T(" "), G(1), T("="), T("\"")>>)

\* <\s*(\w+)\s*;([^>]*)\s*/> and <\s*(\w+)([^>]*)\s*;\s*/>, both -> <\1\2/>
SelfClosingSemicolons(line) ==
    Sub(Sub(line, <<L("<"), S0, WG, S0, L(";"), NotInG({">"}), S0, L("/"), L(">")>>,
            <<T("<"), G(1), G(2), T("/"), T(">")>>),
        <<L("<"), S0, WG, NotInG({">"}), S0, L(";"), S0, L("/"), L(">")>>,
        <<T("<"), G(1), G(2), T("/"), T(">")>>)

FixJsxLineAggressive(line) ==
    IF ~StartsWith(Strip(line), <<"/", "/">>) /\ ~StartsWith(Strip(line), <<"/", "*">>)
    THEN SelfClosingSemicolons(AttributeSemicolons(TagSemicolons(line)))
    ELSE line

aggressive_fix_jsx_syntax(content) == MapLines(FixJsxLineAggressive, content)

\* The import and the export branch of aggressive_fix_import_export_syntax.
FixImportLine(line) ==
    IF IsImportLine(line) /\ ~EndsWith(Strip(line), <<";">>)
    THEN Sub(Sub(Sub(line, <<L(";"), S1, L("from"), S1>>, Ts(<<" ", "from", " ">>)),
                 <<L("}"), S0, L(";"), S0, L("from"), S1>>, Ts(<<"}", " ", "from", " ">>)),
             <<S0, L(";"), S0, L("from"), S1>>, Ts(<<" ", "from", " ">>))
    ELSE line

FixExportLine(line) ==
    IF IsExportLine(line) /\ ~EndsWith(Strip(line), <<";">>)
    THEN Sub(Sub(line, <<L(";"), S0, L("(")>>, Ts(<<"(">>)),
             <<L("function"), S1, WG, S0, L(";"), S0, L("(")>>,
             <<T("function"), T(" "), G(1), T("(")>>)
    ELSE line

FixImportExportLineAggressive(line) == Then(FixImportLine(line), FixExportLine)

aggressive_fix_import_export_syntax(content) == MapLines(FixImportExportLineAggressive, content)

\* '\n'.join(lines) and content.split('\n'), on tokens
RECURSIVE JoinLines(_)
JoinLines(text) ==
    IF text = <<>> THEN <<>>
    ELSE IF Len(text) = 1 THEN text[1]
    ELSE text[1] \o <<"\n">> \o JoinLines(Tail(text))

\* The position of the k-th line break; 0 before the first line and one past
\* the end after the last.
LineBreak(toks, k) ==
    LET breaks == {i \in 1..Len(toks) : toks[i] = "\n"}
    IN  IF k = 0 THEN 0
        ELSE IF k > Cardinality(breaks) THEN Len(toks) + 1
        ELSE CHOOSE i \in breaks : Cardinality({j \in breaks : j < i}) = k - 1

SplitLines(toks) ==
    LET count == Cardinality({i \in 1..Len(toks) : toks[i] = "\n"}) + 1
    IN  SubSeq([k \in 1..count |->
                    SubSeq(toks, LineBreak(toks, k - 1) + 1, LineBreak(toks, k) - 1)],
               1, count)

\* content.find(pat): the first position of pat, 0 when there is none
Find(toks, pat) ==
    LET found == {i \in 1..Len(toks) : MatchAt(toks, pat, i)}
    IN  IF found = {} THEN 0 ELSE Least(found)

\* The filenames with rules of their own.
LayoutTsx == <<"layout", ".", "tsx">>
PageTsx == <<"page", ".", "tsx">>
GlobalsCss == <<"globals", ".", "css">>

\* export\s+default\s+function\s+(\w+)\s*
ExportDefaultFunctionRe ==
    <<L("export"), S1, L("default"), S1, L("function"), S1, WG, S0>>

ExportDefaultFunction == <<T("export"), T(" "), T("default"), T(" "), T("function"), T(" "), G(1)>>

\* ({ children }: { children: React.ReactNode })
LayoutSignature ==
    Ts(<<"(", "{", " ", "children", " ", "}", ":", " ">> \o ChildrenProps \o <<")">>)

\* "use client"\s*\n?
UseClientRe == <<L("\"use client\""), S0, Opt("\n")>>

metadata_export ==
    <<"export", " ", "const", " ", "metadata", " ", "=", " ", "{", "\n",
      " ", " ", "title", ":", " ", "'", "Generated", " ", "App", "'", ",", "\n",
      " ", " ", "description", ":", " ", "'", "Generated", " ", "by", " ", "AICoder", "'", ",", "\n",
      "}">>

ExportConstMetadata == <<"export", " ", "const", " ", "metadata">>

\* The keywords after which page.tsx keeps its "use client".
ClientKeywords == {"useState", "useEffect", "onClick", "onChange", "addEventListener"}

\* Insert after imports
InsertMetadata(toks, import_end) ==
    IF import_end # 0
    THEN SubSeq(toks, 1, import_end - 1) \o <<"\n", "\n">> \o metadata_export
             \o SubSeq(toks, import_end, Len(toks))
    ELSE metadata_export \o <<"\n", "\n">> \o toks

EnsureMetadata(toks) ==
    IF ~Contains(toks, ExportConstMetadata)
    THEN InsertMetadata(toks, Find(toks, <<"\n", "\n">>))
    ELSE toks

FixLayoutSyntax(toks) ==
    Then(Sub(Sub(Sub(toks, ExportDefaultFunctionRe \o AnyParamRe,
                     ExportDefaultFunction \o LayoutSignature),
                 ExportDefaultFunctionRe \o <<L("("), S0, L(")")>>,
                 ExportDefaultFunction \o LayoutSignature),
             UseClientRe, <<>>),
         EnsureMetadata)

\* Remove "use client" if not needed
DropUnneededUseClient(toks) ==
    IF Contains(toks, <<"\"use client\"">>)
       /\ ~(\E keyword \in ClientKeywords : Contains(toks, <<keyword>>))
    THEN Sub(toks, UseClientRe, <<>>)
    ELSE toks

FixPageSyntax(toks) ==
    Then(Sub(toks, ExportDefaultFunctionRe \o AnyParamRe,
             ExportDefaultFunction \o Ts(<<"(", ")">>)),
         DropUnneededUseClient)

aggressive_fix_nextjs_syntax(content, filename) ==
    IF filename = LayoutTsx THEN Then(Then(JoinLines(content), FixLayoutSyntax), SplitLines)
    ELSE IF filename = PageTsx THEN Then(Then(JoinLines(content), FixPageSyntax), SplitLines)
    ELSE content

\* Fix any remaining function parameter and JSX issues
CleanupPatterns(line) ==
    TagSemicolons(
        Sub(Sub(line, AnyParamRe, Ts(<<"(", ")">>)),
            <<L("("), S0, L(":"), S0, L(")")>>, Ts(<<"(", ")">>)))

FinalCleanupLine(line) == Then(Then(CleanupPatterns(line), ImportSemicolon), ExportSemicolon)

final_syntax_cleanup(content) == MapLines(FinalCleanupLine, content)

\* One iteration of force_syntax_correction's loop: the five passes in order.
CorrectionPass(content, filename) ==
    final_syntax_cleanup(
        aggressive_fix_nextjs_syntax(
            aggressive_fix_import_export_syntax(
                aggressive_fix_jsx_syntax(
                    aggressive_fix_function_syntax(content))), filename))

\* range(5)
MaxCorrectionPasses == 5

\* The loop from iteration pass_num on; passes counts the iterations run.
RECURSIVE CorrectionLoop(_, _, _)
RECURSIVE CorrectionStep(_, _, _, _)

\* The end of an iteration without the break: the loop goes on either way.
CorrectionStepNoBreak(original_content, content, filename, pass_num) ==
    IF content = original_content
    THEN CorrectionLoop(content, filename, pass_num + 1)
    ELSE CorrectionLoop(content, filename, pass_num + 1)

CorrectionLoop(content, filename, pass_num) ==
    IF pass_num >= MaxCorrectionPasses THEN [content |-> content, passes |-> pass_num]
    ELSE CorrectionStep(content, CorrectionPass(content, filename), filename, pass_num)

\* The end of an iteration: content is what the five passes returned.
CorrectionStep(original_content, content, filename, pass_num) ==
    IF content = original_content
    THEN [content |-> content, passes |-> pass_num + 1]
    ELSE CorrectionLoop(content, filename, pass_num + 1)

force_syntax_correction(content, filename) == CorrectionLoop(content, filename, 0).content

-----------------------------------------------------------------------------
(* main.py: fix_tsx_issues and the three line fixers it applies after the
   correction loop (AICoderWorkflow's own, not agents/coder.py's) *)

workflow_fix_typescript_line(line) ==
    Then(Then(TsFunctionParam(line), TsDoubleAnnotation), TsExportDefaultParam)

workflow_fix_typescript_syntax_errors(content) ==
    MapLines(workflow_fix_typescript_line, content)

workflow_fix_jsx_line(line) ==
    Then(Then(Then(Then(TsJsxSemicolon(line),
        LAMBDA fixed : JsxRule(fixed, {<<"<">>, <<"/", ">">>})),
        LAMBDA fixed : JsxRule(fixed, {<<"className", "=">>})),
        LAMBDA fixed : JsxRule(fixed, {<<"src", "=">>})),
        LAMBDA fixed : JsxRule(fixed, {<<"alt", "=">>}))

workflow_fix_jsx_syntax_errors(content) == MapLines(workflow_fix_jsx_line, content)

workflow_fix_import_export_syntax(content) == MapLines(FixImportExportLine, content)

UseClient == <<"\"use client\"">>

\* Add "use client" directive for class components
AddUseClient(toks) ==
    IF Contains(toks, <<"class", " ">>) /\ Contains(toks, <<"extends", " ", "Component">>)
       /\ ~Contains(toks, UseClient)
    THEN UseClient \o <<"\n", "\n">> \o toks
    ELSE toks

\* Fix @/ imports to use relative paths
RelativeImports(toks) ==
    ReplaceAll(ReplaceAll(ReplaceAll(toks, <<"@", "/", "components", "/">>,
                                     <<".", "/", "components", "/">>),
                          <<"@", "/", "app", "/">>, <<".", "/">>),
               <<"@", "/">>, <<".", "/">>)

\* Ensure proper React imports for hooks
ReactImport(toks) ==
    IF (Contains(toks, <<"useState">>) \/ Contains(toks, <<"useEffect">>))
       /\ ~Contains(toks, <<"import", " ", "React">>)
       /\ ~Contains(toks, <<"import", " ", "{", " ">>)
    THEN IF Contains(toks, <<"import", " ", "{", " ">>)
         THEN ReplaceAll(toks, <<"import", " ", "{", " ">>,
                         <<"import", " ", "React", ",", " ", "{", " ">>)
         ELSE <<"import", " ", "React", " ", "from", " ", "'", "react", "'", "\n">> \o toks
    ELSE toks

\* content.replace(f'function {func_name}', f'export default function {func_name}')
ExportFunction(toks, match) ==
    IF match.ok
    THEN ReplaceAll(toks, <<"function", " ">> \o match.caps[1],
                    <<"export", " ", "default", " ", "function", " ">> \o match.caps[1])
    ELSE toks

\* Ensure proper default exports
DefaultExport(toks) ==
    IF ~Contains(toks, <<"export", " ", "default">>) /\ Contains(toks, <<"function", " ">>)
    THEN ExportFunction(toks, SearchFrom(toks, FunctionNameRe, 1))
    ELSE toks

FramerMotion == <<"framer", "-", "motion">>

TransitionDiv ==
    Ts(<<"<", "div", " ", "className", "=", "\"", "transition", "-", "all", " ", "duration",
         "-", "300", " ", "ease", "-", "in", "-", "out", " ">>)
        \o <<G(1), T("\""), T(">")>>

\* attribute=\{[^}]*\}
BracedAttributeRe(attribute) ==
    <<L(attribute), L("="), L("{"), NotIn({"}"}), L("}")>>

\* Replace framer-motion with CSS transitions
ReplaceFramerMotion(toks) ==
    IF Contains(toks, FramerMotion)
    THEN Sub(Sub(Sub(Sub(Sub(Sub(toks,
             <<L("import"), S1, L("{"), NotIn({"}"}), L("motion"), NotIn({"}"}), L("}"), S1,
               L("from"), S1, In(Quotes)>> \o Lits(FramerMotion)
                 \o <<In(Quotes), Opt(";"), Opt("\n")>>, <<>>),
             <<L("<"), L("motion"), L("."), NotIn1G({">"}), L(">")>>, TransitionDiv),
             <<L("<"), L("/"), L("motion"), L("."), NotIn1G({">"}), L(">")>>,
             Ts(<<"<", "/", "div", ">">>)),
             BracedAttributeRe("initial"), <<>>),
             BracedAttributeRe("animate"), <<>>),
             BracedAttributeRe("transition"), <<>>)
    ELSE toks

\* import\s+.*from\s+['"]lib['"];?\n?
ExternalImportRe(lib) ==
    <<L("import"), S1, NotIn({"\n"}), L("from"), S1, In(Quotes)>> \o Lits(lib)
        \o <<In(Quotes), Opt(";"), Opt("\n")>>

\* Remove other external animation libraries
RemoveExternalLibs(toks) ==
    Sub(Sub(Sub(toks, ExternalImportRe(<<"react", "-", "spring">>), <<>>),
            ExternalImportRe(<<"react", "-", "transition", "-", "group">>), <<>>),
        ExternalImportRe(<<"lottie", "-", "react">>), <<>>)

\* The layout.tsx and page.tsx branches of fix_tsx_issues.
NextjsRules(toks, filename) ==
    IF filename = LayoutTsx
    THEN EnsureMetadata(IF Contains(toks, UseClient) THEN Sub(toks, UseClientRe, <<>>) ELSE toks)
    ELSE IF filename = PageTsx
    THEN DropUnneededUseClient(toks)
    ELSE toks

\* Fix metadata exports in client components
ClientMetadata(toks) ==
    IF Contains(toks, UseClient) /\ Contains(toks, ExportConstMetadata)
    THEN Sub(toks, Lits(ExportConstMetadata)
                     \o <<S0, L("="), S0, L("{"), NotIn({"}"}), L("}"), Opt(";"), Opt("\n")>>,
             <<>>)
    ELSE toks

\* The three line fixers.
LineFixes(content) ==
    workflow_fix_import_export_syntax(
        workflow_fix_jsx_syntax_errors(workflow_fix_typescript_syntax_errors(content)))

ImportFixes(toks) ==
    Then(Then(Then(AddUseClient(toks), RelativeImports), ReactImport), DefaultExport)

LibraryFixes(toks) == Then(ReplaceFramerMotion(toks), RemoveExternalLibs)

\* fix_tsx_issues from its second statement on, corrected being the text the
\* correction loop returned.
FixCorrected(corrected, filename) ==
    Then(Then(Then(Then(Then(Then(LineFixes(corrected), JoinLines), ImportFixes), LibraryFixes),
                   LAMBDA toks : NextjsRules(toks, filename)),
              ClientMetadata),
         SplitLines)

fix_tsx_issues(content, filename) ==
    CHOOSE fixed \in {FixCorrected(corrected, filename) :
                          corrected \in {force_syntax_correction(content, filename)}} : TRUE

-----------------------------------------------------------------------------
(* The generated sources the repair passes are run on. *)

RepairFilenames == {LayoutTsx, PageTsx, <<"Card", ".", "tsx">>}

SampleLines ==
    {<<"export", " ", "default", " ", "function", " ", "RootLayout", "(", ":", " ", "any", ")",
       " ", "{">>,
     <<"\"use client\"">>,
     <<"'use client'">>,
     <<>>,
     <<"export", " ", "const", " ", "metadata", " ", "=", " ", "{", "}">>,
     <<"<", "div", " ", "className", "=", "\"", "a", "\"", ";", " ", "/", ">">>,
     <<"import", " ", "{", " ", "x", " ", "}", ";", " ", "from", " ", "'", "y", "'">>,
     <<"import", " ", "{", " ", "motion", " ", "}", " ", "from", " ", "'", "framer", "-",
       "motion", "'">>}

\* The longest run of stray semicolons after a tag name.
MaxSemicolons == 12

\* The most lines of a text made of sample lines.
MaxSampleLines == 2

RECURSIVE Semicolons(_)
Semicolons(n) == IF n = 0 THEN <<>> ELSE <<";">> \o Semicolons(n - 1)

\* <a;;; with n semicolons
TagLine(n) == <<"<", "a">> \o Semicolons(n)

RECURSIVE TextsOf(_, _)
TextsOf(lines, n) ==
    IF n = 0 THEN {<<>>}
    ELSE LET shorter == TextsOf(lines, n - 1)
         IN  shorter \cup {Append(text, line) : text \in shorter, line \in lines}

RepairTexts ==
    (TextsOf(SampleLines, MaxSampleLines) \ {<<>>})
        \cup {<<TagLine(n)>> : n \in 0..MaxSemicolons}

-----------------------------------------------------------------------------
(* The repair engine called on generated sources: force_syntax_correction on
   a fresh text or on the text it returned before, and fix_tsx_issues. *)

InitRepair ==
    /\ GraphIdle
    /\ \E content \in RepairTexts, filename \in RepairFilenames :
           input = [content |-> content, filename |-> filename, repeated |-> FALSE]
    /\ output = NoneVal
    /\ project = FreshProject
    /\ last = "init"

ForceSyntaxCorrection ==
    /\ last = "init"
    /\ output' = CorrectionLoop(input.content, input.filename, 0)
    /\ last' = "force_syntax_correction"
    /\ UNCHANGED <<input, graphVars, project>>

\* The caller hands the returned text back in.
ForceSyntaxCorrectionAgain ==
    /\ last = "force_syntax_correction"
    /\ ~input.repeated
    /\ input' = [content |-> output.content, filename |-> input.filename, repeated |-> TRUE]
    /\ output' = CorrectionLoop(output.content, input.filename, 0)
    /\ last' = "force_syntax_correction"
    /\ UNCHANGED <<graphVars, project>>

FixTsxIssues ==
    /\ last = "init"
    /\ output' = [content |-> fix_tsx_issues(input.content, input.filename), passes |-> 0]
    /\ last' = "fix_tsx_issues"
    /\ UNCHANGED <<input, graphVars, project>>

NextRepair ==
    \/ ForceSyntaxCorrection
    \/ ForceSyntaxCorrectionAgain
    \/ FixTsxIssues

SpecRepair == InitRepair /\ [][NextRepair]_vars

\* C13: force_syntax_correction called on the text it returned gives that
\* text back, for every input text and every filename.
C13_Idempotent ==
    (last = "force_syntax_correction" /\ input.repeated) => output.content = input.content

\* The five passes applied k times.
RECURSIVE Iterate(_, _, _)
Iterate(content, filename, k) ==
    IF k = 0 THEN content
    ELSE CHOOSE after \in {CorrectionPass(before, filename) :
                               before \in {Iterate(content, filename, k - 1)}} : TRUE

\* C14: force_syntax_correction runs between one and five iterations of the
\* five passes, every iteration before the last changed the content, it stops
\* below the cap only after an iteration that changed nothing, and it returns
\* the content after the last iteration it ran.
C14_BoundedLoop ==
    last = "force_syntax_correction" =>
        /\ output.passes \in 1..MaxCorrectionPasses
        /\ output.content = Iterate(input.content, input.filename, output.passes)
        /\ \A k \in 1..(output.passes - 1) :
               Iterate(input.content, input.filename, k)
                   # Iterate(input.content, input.filename, k - 1)
        /\ output.passes < MaxCorrectionPasses =>
               Iterate(input.content, input.filename, output.passes)
                   = Iterate(input.content, input.filename, output.passes - 1)

\* The loop ran into its cap: one more iteration would change the text again.
C14_Witness ==
    /\ last = "force_syntax_correction"
    /\ output.passes = MaxCorrectionPasses
    /\ CorrectionPass(output.content, input.filename) # output.content

\* The directive in either quoting.
UseClientDirectives == {"\"use client\"", "'use client'"}

HasUseClient(content) ==
    \E i \in 1..Len(content) : \E j \in 1..Len(content[i]) : content[i][j] \in UseClientDirectives

\* C15: the text force_syntax_correction or fix_tsx_issues returns for
\* layout.tsx holds no "use client" directive and holds an
\* export const metadata declaration.
C15_LayoutIsServerComponent ==
    (last \in {"force_syntax_correction", "fix_tsx_issues"} /\ input.filename = LayoutTsx)
        => /\ ~HasUseClient(output.content)
           /\ Contains(JoinLines(output.content), ExportConstMetadata)

-----------------------------------------------------------------------------
(* The splitters of a generated reply into files: parse_generated_code of
   agents/coder.py and parse_tsx_response of main.py. *)

\* Filenames with each extension the delimiter convention names.
SectionNames == {<<"main", ".", "tsx">>, <<"globals", ".", "css">>, <<"util", ".", "js">>}

\* File contents without a delimiter-shaped line: empty, one line, a line to
\* trim with a blank line after it, an ordinary comment.
SectionContents ==
    {<< <<>> >>,
     << <<"a">> >>,
     << <<" ", "a">>, <<>> >>,
     << <<"/", "/", " ", "note">>, <<"b">> >>}

\* The most sections of a joined blob.
MaxSections == 3

\* The lists of up to n sections with distinct filenames.
RECURSIVE SectionLists(_)
SectionLists(n) ==
    IF n = 0 THEN {<<>>}
    ELSE LET shorter == SectionLists(n - 1)
         IN  shorter \cup
             {Append(list, [filename |-> name, content |-> content]) :
                  list \in {l \in shorter : Len(l) = n - 1},
                  name \in SectionNames, content \in SectionContents}

DistinctNames(list) ==
    \A i, j \in 1..Len(list) : i # j => list[i].filename # list[j].filename

Mappings == {list \in SectionLists(MaxSections) : list # <<>> /\ DistinctNames(list)}

\* The sections joined with markers: a '// <filename>' line before each content.
RECURSIVE JoinWithMarkers(_)
JoinWithMarkers(list) ==
    IF list = <<>> THEN <<>>
    ELSE << <<"/", "/", " ">> \o Head(list).filename >> \o Head(list).content
             \o JoinWithMarkers(Tail(list))

\* The two default files of main.py.
create_default_layout ==
    <<
      <<"import", " ", "type", " ", "{", " ", "Metadata", " ", "}", " ", "from", " ", "'",
        "next", "'">>,
      <<"import", " ", "{", " ", "Inter", " ", "}", " ", "from", " ", "'", "next", "/", "font",
        "/", "google", "'">>,
      <<"import", " ", "'", ".", "/", "globals", ".", "css", "'">>,
      <<>>,
      <<"const", " ", "inter", " ", "=", " ", "Inter", "(", "{", " ", "subsets", ":", " ", "[",
        "'", "latin", "'", "]", " ", "}", ")">>,
      <<>>,
      <<"export", " ", "const", " ", "metadata", ":", " ", "Metadata", " ", "=", " ", "{">>,
      <<" ", " ", "title", ":", " ", "'", "Generated", " ", "App", "'", ",">>,
      <<" ", " ", "description", ":", " ", "'", "Generated", " ", "by", " ", "AICoder", "'",
        ",">>,
      <<"}">>,
      <<>>,
      <<"export", " ", "default", " ", "function", " ", "RootLayout", "(", "{">>,
      <<" ", " ", "children", ",">>,
      <<"}", ":", " ", "{">>,
      <<" ", " ", "children", ":", " ", "React", ".", "ReactNode">>,
      <<"}", ")", " ", "{">>,
      <<" ", " ", "return", " ", "(">>,
      <<" ", " ", " ", " ", "<", "html", " ", "lang", "=", "\"", "en", "\"", ">">>,
      <<" ", " ", " ", " ", " ", " ", "<", "body", " ", "className", "=", "{", "inter", ".",
        "className", "}", ">", "{", "children", "}", "<", "/", "body", ">">>,
      <<" ", " ", " ", " ", "<", "/", "html", ">">>,
      <<" ", " ", ")">>,
      <<"}">>
    >>

create_default_globals ==
    <<
      <<"@", "tailwind", " ", "base", ";">>,
      <<"@", "tailwind", " ", "components", ";">>,
      <<"@", "tailwind", " ", "utilities", ";">>,
      <<>>,
      <<":", "root", " ", "{">>,
      <<" ", " ", "-", "-", "foreground", "-", "rgb", ":", " ", "0", ",", " ", "0", ",", " ",
        "0", ";">>,
      <<" ", " ", "-", "-", "background", "-", "start", "-", "rgb", ":", " ", "214", ",", " ",
        "219", ",", " ", "220", ";">>,
      <<" ", " ", "-", "-", "background", "-", "end", "-", "rgb", ":", " ", "255", ",", " ",
        "255", ",", " ", "255", ";">>,
      <<"}">>,
      <<>>,
      <<"@", "media", " ", "(", "prefers", "-", "color", "-", "scheme", ":", " ", "dark", ")",
        " ", "{">>,
      <<" ", " ", ":", "root", " ", "{">>,
      <<" ", " ", " ", " ", "-", "-", "foreground", "-", "rgb", ":", " ", "255", ",", " ",
        "255", ",", " ", "255", ";">>,
      <<" ", " ", " ", " ", "-", "-", "background", "-", "start", "-", "rgb", ":", " ", "0",
        ",", " ", "0", ",", " ", "0", ";">>,
      <<" ", " ", " ", " ", "-", "-", "background", "-", "end", "-", "rgb", ":", " ", "0", ",",
        " ", "0", ",", " ", "0", ";">>,
      <<" ", " ", "}">>,
      <<"}">>,
      <<>>,
      <<"body", " ", "{">>,
      <<" ", " ", "color", ":", " ", "rgb", "(", "var", "(", "-", "-", "foreground", "-",
        "rgb", ")", ")", ";">>,
      <<" ", " ", "background", ":", " ", "linear", "-", "gradient", "(">>,
      <<" ", " ", " ", " ", " ", " ", "to", " ", "bottom", ",">>,
      <<" ", " ", " ", " ", " ", " ", "transparent", ",">>,
      <<" ", " ", " ", " ", " ", " ", "rgb", "(", "var", "(", "-", "-", "background", "-",
        "end", "-", "rgb", ")", ")">>,
      <<" ", " ", " ", " ", ")">>,
      <<" ", " ", " ", " ", "rgb", "(", "var", "(", "-", "-", "background", "-", "start", "-",
        "rgb", ")", ")", ";">>,
      <<"}">>
    >>

\* "// ", the text parse_tsx_response splits at
CommentMarker == <<"/", "/", " ">>

\* s.split(sep): the pieces between the occurrences of sep, left to right
RECURSIVE SplitOnFrom(_, _, _)
RECURSIVE SplitOnAt(_, _, _, _)
SplitOnFrom(toks, sep, i) ==
    SplitOnAt(toks, sep, i, {k \in i..Len(toks) : MatchAt(toks, sep, k)})

SplitOnAt(toks, sep, i, found) ==
    IF found = {} THEN <<SubSeq(toks, i, Len(toks))>>
    ELSE <<SubSeq(toks, i, Least(found) - 1)>>
             \o SplitOnFrom(toks, sep, Least(found) + Len(sep))

SplitOn(toks, sep) == SplitOnFrom(toks, sep, 1)

\* part.strip() is not empty
IsNotBlank(toks) == \E i \in 1..Len(toks) : ~IsWs(toks[i])

\* lines[0].strip().endswith(('.tsx', '.css', '.js'))
HasKnownExtension(name) ==
    \/ EndsWith(name, <<".", "tsx">>)
    \/ EndsWith(name, <<".", "css">>)
    \/ EndsWith(name, <<".", "js">>)

\* A part whose first line names a file becomes that file; any other part is
\* passed over.
ParseSection(files, lines) ==
    IF HasKnownExtension(Strip(lines[1]))
    THEN Put(files, Strip(lines[1]), fix_tsx_issues(StripText(Tail(lines)), Strip(lines[1])))
    ELSE files

ParsePart(files, part) ==
    IF IsNotBlank(part) THEN ParseSection(files, SplitLines(part)) ELSE files

RECURSIVE ParseParts(_, _, _)
ParseParts(files, parts, i) ==
    IF i > Len(parts) THEN files
    ELSE ParseParts(ParsePart(files, parts[i]), parts, i + 1)

\* Create default Next.js structure
DefaultStructure(coder_result) ==
    Put(Put(Put(EmptyDict, PageTsx, fix_tsx_issues(SplitLines(coder_result), PageTsx)),
            LayoutTsx, create_default_layout),
        GlobalsCss, create_default_globals)

\* if name not in files: files[name] = default
EnsureFile(files, name, default) ==
    IF name \in DOMAIN files THEN files ELSE Put(files, name, default)

parse_tsx_response(coder_result) ==
    EnsureFile(
        EnsureFile(
            IF Contains(coder_result, CommentMarker)
            THEN ParseParts(EmptyDict, SplitOn(coder_result, CommentMarker), 1)
            ELSE DefaultStructure(coder_result),
            LayoutTsx, create_default_layout),
        GlobalsCss, create_default_globals)

\* The lines a coder response is made of: filename delimiters, code, and an
\* ordinary comment.
ResponseLines ==
    {CommentMarker \o PageTsx, CommentMarker \o LayoutTsx,
     CommentMarker \o <<"Card", ".", "tsx">>,
     CommentMarker \o <<"note">>, <<"a">>, <<"b">>}

\* The most lines of a coder response.
MaxResponseLines == 3

Responses == TextsOf(ResponseLines, MaxResponseLines) \ {<<>>}

InitParse ==
    /\ GraphIdle
    /\ NoCall
    /\ last = "init"

ParseGeneratedCode ==
    /\ last = "init"
    /\ \E list \in Mappings :
           /\ input' = [files |-> list, blob |-> JoinWithMarkers(list)]
           /\ output' = parse_generated_code(JoinWithMarkers(list))
    /\ last' = "parse_generated_code"
    /\ UNCHANGED <<graphVars, project>>

ParseTsxResponse ==
    /\ last = "init"
    /\ \E lines \in Responses :
           /\ input' = [lines |-> lines, blob |-> JoinLines(lines)]
           /\ output' = parse_tsx_response(JoinLines(lines))
    /\ last' = "parse_tsx_response"
    /\ UNCHANGED <<graphVars, project>>

\* Lines that raise each diagnostic of validate_code, and one that raises none.
ValidationLines ==
    {<<"function", " ", "f", "(", ":", " ", "any", ")", " ", "{">>,
     <<"}", ":", " ", "{", " ", "a", " ", "}", ":", " ", "any">>,
     <<"<", "a", ";", ">">>,
     <<"import", " ", "{", " ", "x", " ", "}", ";", " ", "from", " ", "'", "y", "'">>,
     <<"export", " ", "function", " ", "f", "(", ")", ";">>,
     <<"a">>}

\* The most files of a mapping handed to validate_generated_files.
MaxValidatedFiles == 2

ValidatedMappings ==
    UNION {[names -> {<<line>> : line \in ValidationLines}] :
               names \in {n \in SUBSET RepairFilenames : Cardinality(n) <= MaxValidatedFiles}}

ValidateGeneratedFiles ==
    /\ last = "init"
    /\ \E parsed_files \in ValidatedMappings :
           /\ input' = parsed_files
           /\ output' = validate_generated_files(parsed_files)
    /\ last' = "validate_generated_files"
    /\ UNCHANGED <<graphVars, project>>

\* The lines of ValidationLines on which validate_code appends to errors.
ViolationLines ==
    {line \in ValidationLines : validate_code(<<line>>).errors # <<>>}

\* validate_generated_files on a mapping, and again once a line is added to
\* one of its files.
ValidateWithAddedLine ==
    /\ last = "init"
    /\ \E parsed_files \in ValidatedMappings :
       \E filename \in DOMAIN parsed_files, line \in ViolationLines :
           /\ input' = [parsed_files |-> parsed_files, filename |-> filename, line |-> line]
           /\ output' =
                  [before |-> validate_generated_files(parsed_files),
                   after |-> validate_generated_files(
                                 Put(parsed_files, filename,
                                     Append(parsed_files[filename], line)))]
    /\ last' = "validate_with_added_line"
    /\ UNCHANGED <<graphVars, project>>

NextParse ==
    \/ ParseGeneratedCode
    \/ ParseTsxResponse
    \/ ValidateGeneratedFiles
    \/ ValidateWithAddedLine

SpecParse == InitParse /\ [][NextParse]_vars

\* The mapping a list of sections stands for, bodies trimmed.
TrimmedMapping(list) ==
    [name \in {list[i].filename : i \in 1..Len(list)} |->
        StripText((CHOOSE section \in {list[i] : i \in 1..Len(list)} :
                       section.filename = name).content)]

\* C16: parse_generated_code of the joined sections returns the mapping the
\* sections stand for: the same filenames, each with its trimmed content.
C16_RoundTrip ==
    last = "parse_generated_code" => output = TrimmedMapping(input.files)

\* A line of a response that names a file: "// " and a name with a known
\* extension.
IsDelimiterLine(line) ==
    /\ StartsWith(Strip(line), CommentMarker)
    /\ HasKnownExtension(Strip(line))

NameOfDelimiter(line) == SubSeq(Strip(line), Len(CommentMarker) + 1, Len(Strip(line)))

\* The delimiter lines before line i.
DelimitersBefore(lines, i) == {j \in 1..(i - 1) : IsDelimiterLine(lines[j])}

\* Line i is a body line: not a delimiter, and some delimiter precedes it.
IsBodyLine(lines, i) ==
    /\ ~IsDelimiterLine(lines[i])
    /\ DelimitersBefore(lines, i) # {}

\* The file whose section line i lies in.
OwnerOf(lines, i) == NameOfDelimiter(lines[Greatest(DelimitersBefore(lines, i))])

LinesOf(text) == {text[k] : k \in 1..Len(text)}

\* C17: every line between two filename delimiters ends up in the entry of
\* the delimiter that precedes it, ordinary comments and repeated filenames
\* included.
C17_BodyLinesPreserved ==
    last = "parse_tsx_response" =>
        \A i \in 1..Len(input.lines) :
            IsBodyLine(input.lines, i) =>
                /\ OwnerOf(input.lines, i) \in DOMAIN output
                /\ input.lines[i] \in LinesOf(output[OwnerOf(input.lines, i)])

\* C18: a response without any filename delimiter comes back whole as the
\* body of page.tsx, ordinary comments included.
C18_WholeBlobIsPage ==
    (/\ last = "parse_tsx_response"
     /\ \A i \in 1..Len(input.lines) : ~IsDelimiterLine(input.lines[i]))
        => /\ PageTsx \in DOMAIN output
           /\ output[PageTsx] = input.lines

\* C19: the result of parse_tsx_response always has page.tsx, layout.tsx and
\* globals.css.
C19_RequiredFiles ==
    last = "parse_tsx_response" => {PageTsx, LayoutTsx, GlobalsCss} \subseteq DOMAIN output

RECURSIVE SumOver(_, _)
SumOver(counts, todo) ==
    IF todo = {} THEN 0
    ELSE SumOver(counts, todo \ {CHOOSE f \in todo : TRUE}) + counts[CHOOSE f \in todo : TRUE]

\* C20: overall_valid is the AND of the files' is_valid, total_errors and
\* total_warnings are the sums of the lengths of the files' errors and
\* warnings lists, and file_validations has one entry per input file.
C20_Aggregation ==
    last = "validate_generated_files" =>
        /\ DOMAIN output.file_validations = DOMAIN input
        /\ output.overall_valid = (\A f \in DOMAIN input : validate_code(input[f]).is_valid)
        /\ output.total_errors =
               SumOver([f \in DOMAIN input |-> Len(validate_code(input[f]).errors)], DOMAIN input)
        /\ output.total_warnings =
               SumOver([f \in DOMAIN input |-> Len(validate_code(input[f]).warnings)], DOMAIN input)

\* C21: in every result of validate_code, is_valid is true exactly when the
\* errors list is empty, whatever the warnings are.
C21_SeverityPolicy ==
    last = "validate_generated_files" =>
        \A f \in DOMAIN output.file_validations :
            output.file_validations[f].is_valid = (output.file_validations[f].errors = <<>>)

\* C22: a line that validate_code reports as an error, added to a file of a
\* mapping that was overall_valid, makes the mapping not overall_valid and
\* total_errors strictly larger.
C22_Monotonicity ==
    (last = "validate_with_added_line" /\ output.before.overall_valid)
        => /\ ~output.after.overall_valid
           /\ output.after.total_errors > output.before.total_errors

\* The messages of validate_code's five line checks; none names a file.
LineMessages ==
    {"Invalid function parameter syntax", "Double type annotation", "Possible semicolon in JSX",
     "Invalid import syntax", "Invalid export syntax"}

\* C23: a mapping without layout.tsx is not overall_valid and one of its
\* errors is about the missing file, not about a line.
C23_MissingLayout ==
    (last = "validate_generated_files" /\ LayoutTsx \notin DOMAIN input)
        => /\ ~output.overall_valid
           /\ \E f \in DOMAIN output.file_validations :
                  \E i \in 1..Len(output.file_validations[f].errors) :
                      output.file_validations[f].errors[i].msg \notin LineMessages

-----------------------------------------------------------------------------
(* main.py: the run from prompt to saved files *)

IndexTs == <<"index", ".", "ts">>
MainPy == <<"main", ".", "py">>
PackageJson == <<"package", ".", "json">>
TsconfigJson == <<"tsconfig", ".", "json">>
RequirementsTxt == <<"requirements", ".", "txt">>

\* The texts of the package files; what they say is not followed here.
PackageText == << <<"{", "}">> >>

OutputFormats == {"python", "typescript", "tsx"}

\* dict.update
Update(d, e) == [k \in (DOMAIN d) \cup (DOMAIN e) |-> IF k \in DOMAIN e THEN e[k] ELSE d[k]]

\* The except branch of execute_workflow.
FailedRun(e) == [error |-> e, user_input |-> Prompt, workflow_step |-> "failed"]

\* execute_workflow: created is what create_workflow_from_contracts returned
\* (None when the graph library is missing or the builder raised), invoked is
\* what workflow.invoke(initial_state) returned or raised.
execute_workflow(created, invoked) ==
    IF created = NoneVal THEN FailedRun("Failed to initialize workflow")
    ELSE IF HasRaised(invoked) THEN FailedRun(invoked.exception)
    ELSE invoked

\* The files one generated text stands for under the output format.
CodeFiles(generated_files, code, output_format) ==
    CASE output_format = "tsx" -> Update(generated_files, parse_tsx_response(JoinLines(code)))
      [] output_format = "typescript" -> Put(generated_files, IndexTs, code)
      [] OTHER -> Put(generated_files, MainPy, code)

FromCoderResult(workflow_state, output_format) ==
    IF Get(workflow_state, "coder_result", EmptyText) # EmptyText
    THEN CodeFiles(EmptyDict, workflow_state["coder_result"], output_format)
    ELSE EmptyDict

FromGeneratedCode(generated_files, workflow_state, output_format) ==
    IF "generated_code" \in DOMAIN workflow_state
    THEN CodeFiles(generated_files, workflow_state["generated_code"], output_format)
    ELSE generated_files

FromPlan(generated_files, planner_result, output_format) ==
    IF "dependencies" \in DOMAIN planner_result
    THEN IF output_format = "typescript"
         THEN Put(Put(generated_files, PackageJson, PackageText), TsconfigJson, PackageText)
         ELSE Put(generated_files, RequirementsTxt, PackageText)
    ELSE generated_files

extract_generated_code(workflow_state, output_format) ==
    FromPlan(FromGeneratedCode(FromCoderResult(workflow_state, output_format),
                               workflow_state, output_format),
             Get(workflow_state, "plan", EmptyDict), output_format)

\* save_generated_files: the directories are made outside the try of the
\* write, so a directory that cannot be made raises to the caller.
SaveRaises(generated_files, mkdir_error) ==
    mkdir_error # NoneVal /\ DOMAIN generated_files # {}

save_generated_files(generated_files) == [filename \in DOMAIN generated_files |-> "saved"]

\* The except branch of run_complete_workflow, and its early returns.
FailedResult(e) == [success |-> FALSE, error |-> e, user_prompt |-> Prompt]

\* Step 3.6 and 3.7: the build, and the build again after the automatic fixes
\* when the first one did not succeed.
Compiled(validation, first, second) ==
    IF first.success THEN Put(validation, "compilation_result", first)
    ELSE Put(Put(validation, "compilation_result", first),
             "compilation_result_after_fix", second)

\* Step 4 and 5
SavedResult(workflow_state, generated_files, validation, output_format, mkdir_error) ==
    IF SaveRaises(generated_files, mkdir_error) THEN FailedResult(mkdir_error)
    ELSE [success |-> TRUE,
          user_prompt |-> Prompt,
          project_name |-> IF output_format = "tsx" THEN "my-new-website" ELSE "project_timestamp",
          generated_files |-> DOMAIN generated_files,
          saved_files |-> save_generated_files(generated_files),
          validation |-> validation,
          workflow_state |-> [plan |-> Get(workflow_state, "plan", NoneVal),
                              coder_result |-> Get(workflow_state, "coder_result", NoneVal),
                              test_results |-> Get(workflow_state, "test_results", NoneVal)]]

\* Whether the second build finds "my-new-website": the same directory as the
\* first when that one came back to where it started, and otherwise a
\* directory of that name inside the project, which nothing has made.
RebuildDirExists(run) ==
    /\ CwdAfterBuild(StartDir, run.project_dir_exists, run.build) = StartDir
    /\ run.project_dir_exists

\* Step 2 to 5 on the files extracted from the final state.
RunOnFiles(workflow_state, generated_files, run) ==
    IF DOMAIN generated_files = {}
    THEN [success |-> FALSE, error |-> "No code was generated", user_prompt |-> Prompt,
          workflow_state |-> workflow_state]
    ELSE SavedResult(workflow_state, generated_files,
                     IF run.output_format = "tsx"
                     THEN Compiled(EmptyDict,
                                   compile_and_check_website(run.project_dir_exists, run.build),
                                   compile_and_check_website(RebuildDirExists(run), run.rebuild))
                     ELSE EmptyDict,
                     run.output_format,
                     run.mkdir_error)

\* The run without its early return on an error in the final state.
RunOnStateIgnoringError(workflow_state, run) ==
    RunOnFiles(workflow_state, extract_generated_code(workflow_state, run.output_format), run)

RunOnState(workflow_state, run) ==
    IF "error" \in DOMAIN workflow_state THEN FailedResult(workflow_state["error"])
    ELSE RunOnFiles(workflow_state, extract_generated_code(workflow_state, run.output_format), run)

run_complete_workflow(run) == RunOnState(execute_workflow(run.created, run.invoked), run)

\* The builds of step 3.6 and 3.7 as the project tree sees them.
ProjectAfterBuilds(was, run) ==
    IF compile_and_check_website(run.project_dir_exists, run.build).success
    THEN ProjectAfterBuild(was, run.project_dir_exists, run.build)
    ELSE ProjectAfterBuild(ProjectAfterBuild(was, run.project_dir_exists, run.build),
                           RebuildDirExists(run), run.rebuild)

\* Step 4 as the project tree sees it: the tsx files are written to
\* my-new-website/src/app below the working directory of the moment; the other
\* formats go to a directory of their own.
ProjectAfterSave(was, generated_files, run) ==
    IF run.output_format = "tsx" /\ ~SaveRaises(generated_files, run.mkdir_error)
       /\ was.cwd = StartDir
    THEN [was EXCEPT !.app_files = Update(@, generated_files)]
    ELSE was

\* What run_complete_workflow does to the process and the project tree, along
\* the branches of RunOnState and RunOnFiles.
ProjectAfterRunOnFiles(was, generated_files, run) ==
    IF DOMAIN generated_files = {} THEN was
    ELSE ProjectAfterSave(IF run.output_format = "tsx" THEN ProjectAfterBuilds(was, run)
                          ELSE was,
                          generated_files, run)

ProjectAfterRun(was, workflow_state, run) ==
    IF "error" \in DOMAIN workflow_state THEN was
    ELSE ProjectAfterRunOnFiles(was, extract_generated_code(workflow_state, run.output_format),
                                run)

\* What invoke() can hand back: the state a node left after its except
\* branch (before or after code was generated), a state with a plan only, a
\* state with code, the prepared state untouched, or the graph's own
\* exception.
PlannedState == planner_node(PreparedState, FALSE, PlanReply).updated_state

CodedState == coder_node(PreparedState, FALSE, CodeReply).updated_state

FinalStates ==
    {PreparedState,
     PlannedState,
     CodedState,
     planner_node(PreparedState, TRUE, EmptyText).updated_state,
     tester_node(CodedState, TRUE, EmptyDict, EmptyText).updated_state}

InvokeOutcomes == FinalStates \cup {Exc("GraphRecursionError")}

\* The builds of a run: npm missing, a build past its limit, a clean build,
\* a build with errors.
BuildChildren ==
    {child \in Children :
        \/ ~child.starts /\ child.error = "FileNotFoundError"
        \/ child.starts /\ child.seconds = 121 /\ child.returncode = 0
                        /\ child.stdout = <<>> /\ child.stderr = <<>>
        \/ child.starts /\ child.seconds = 5 /\ child.returncode = 0
                        /\ child.stdout = <<>> /\ child.stderr = <<>>
        \/ child.starts /\ child.seconds = 5 /\ child.returncode = 1
                        /\ child.stdout = BuildLog /\ child.stderr = <<>>}

Runs ==
    [created : {NoneVal, "compiled"}, invoked : InvokeOutcomes, output_format : OutputFormats,
     project_dir_exists : BOOLEAN, build : BuildChildren, rebuild : BuildChildren,
     mkdir_error : {NoneVal, "PermissionError"}]

InitRun ==
    /\ GraphIdle
    /\ NoCall
    /\ last = "init"

RunCompleteWorkflow ==
    /\ last = "init"
    /\ \E run \in Runs :
           /\ input' = run
           /\ output' = run_complete_workflow(run)
           /\ project' = ProjectAfterRun([project EXCEPT !.built = <<>>],
                                         execute_workflow(run.created, run.invoked), run)
    /\ last' = "run_complete_workflow"
    /\ UNCHANGED graphVars

NextRun == RunCompleteWorkflow

SpecRun == InitRun /\ [][NextRun]_vars

\* The run got as far as its builds.
ReachedBuild(run) ==
    /\ run.created # NoneVal
    /\ ~HasRaised(run.invoked)
    /\ "error" \notin DOMAIN run.invoked
    /\ DOMAIN extract_generated_code(run.invoked, run.output_format) # {}
    /\ run.output_format = "tsx"

ReachedSave(run) ==
    /\ run.created # NoneVal
    /\ ~HasRaised(run.invoked)
    /\ "error" \notin DOMAIN run.invoked
    /\ DOMAIN extract_generated_code(run.invoked, run.output_format) # {}

BuildRaised(run) ==
    /\ ReachedBuild(run)
    /\ \/ HasRaised(compile_and_check_website_unguarded(run.project_dir_exists, run.build))
       \/ /\ ~compile_and_check_website(run.project_dir_exists, run.build).success
          /\ HasRaised(compile_and_check_website_unguarded(RebuildDirExists(run), run.rebuild))

\* An exception came up to run_complete_workflow or into the state it reads:
\* the workflow could not be made, invoke raised, a node ended in its except
\* branch, or the save raised.
RaisedToRun(run) ==
    \/ run.created = NoneVal
    \/ HasRaised(run.invoked)
    \/ "error" \in DOMAIN run.invoked
    \/ ReachedSave(run) /\ run.mkdir_error # NoneVal

\* A step of the run raised.
StepRaised(run) == RaisedToRun(run) \/ BuildRaised(run)

HoldsFiles(files, generated_files) ==
    \A filename \in DOMAIN generated_files :
        /\ filename \in DOMAIN files
        /\ files[filename] = generated_files[filename]

\* C24: every build of a run, the first and the one after the automatic
\* fixes, runs in the project directory and finds there the files this run
\* generated.
C24_SavedBeforeBuild ==
    last = "run_complete_workflow" =>
        \A i \in 1..Len(project.built) :
            /\ project.built[i].dir = <<ProjectName>>
            /\ HoldsFiles(project.built[i].files,
                          extract_generated_code(input.invoked, input.output_format))

\* C30: when compile_and_check_website returns, the working directory is the
\* one it was called in.
C30_WorkingDirectoryKept ==
    last = "compile_and_check_website" => project.cwd = input.cwd

-----------------------------------------------------------------------------
(* agents/orchestrator.py: repeated orchestrator steps *)

\* The keys orchestrator_node writes when determine_next_action returned.
OrchestratorKeys ==
    {"workflow_status", "next_agent", "orchestration_notes", "workflow_metadata"}

\* C25: an orchestrator step taken in a working status whose agent has not
\* reported completion leaves the status and names the same agent again, and
\* adds nothing to the state but the keys of every step: no count of the
\* attempts is kept and no number of them leads to failed.
C25_UnboundedRetry ==
    [][ (last' = "orchestrator" /\ GivenStatus \in WorkingStatuses
            /\ ~ReportsCompleted(GivenStatus))
        => /\ StatusOf(state') = GivenStatus
           /\ Get(state', "next_agent", NoneVal) = AgentOf(GivenStatus)
           /\ DOMAIN state' = DOMAIN state \cup OrchestratorKeys ]_vars

\* The coder was named a second time in a row: the estimate of the step is
\* the one for the current_step the step before had written.
C25_Witness ==
    /\ last = "orchestrator"
    /\ StatusOf(state) = CODING
    /\ ~ReportsCompleted(CODING)
    /\ state["next_agent"] = "coder"
    /\ state["workflow_metadata"].current_step = 2
    /\ state["workflow_metadata"].estimated_completion = "5-10 minutes"

\* The position index of a status.
StepOf(ws) ==
    CASE ws = PLANNING -> 1
      [] ws = CODING -> 2
      [] ws = TESTING -> 3
      [] ws = ENHANCING -> 4
      [] ws = COMPLETED -> 5
      [] OTHER -> 0

\* C26: after an orchestrator step that did not raise, current_step is the
\* position index of the workflow_status the step wrote and progress is the
\* fraction the table gives for that same status.
C26_MetadataDescribesNewStatus ==
    (last = "orchestrator" /\ "error" \notin DOMAIN state)
        => /\ state["workflow_metadata"].current_step = StepOf(StatusOf(state))
           /\ state["workflow_metadata"].progress = calculate_progress(StatusOf(state))

\* What a change leaves in agent_results for one agent: nothing, its flag
\* with 'completed' or 'in_progress', or a value that is not a mapping.
EntryChoices == {"no_entry", "completed", "in_progress", "malformed"}

\* agent_results with the entry of one agent replaced.
WithEntry(agent_results, agent, choice) ==
    [a \in IF choice = "no_entry" THEN DOMAIN agent_results \ {agent}
           ELSE DOMAIN agent_results \cup {agent} |->
        IF a # agent THEN agent_results[a]
        ELSE IF choice = "malformed" THEN NotADict
        ELSE [k \in {FlagKey(a)} |-> choice]]

RunStates ==
    {EmptyDict}
        \cup {[workflow_status |-> ws, agent_results |-> EmptyDict] :
                  ws \in WorkflowStatus \cup {UnknownStatus}}

InitRouterRun ==
    /\ NoCall
    /\ state \in RunStates
    /\ last = "init"
    /\ input_intact = TRUE
    /\ next_action = NoAction
    /\ prePause = EmptyDict
    /\ faults = 0
    /\ NoGraph
    /\ NoManager

\* Something other than the orchestrator rewrites one entry of agent_results.
ChangeAgentResults ==
    /\ \E agent \in AgentNames, choice \in EntryChoices :
           state' = Put(state, "agent_results",
                        WithEntry(Get(state, "agent_results", EmptyDict), agent, choice))
    /\ last' = "change_agent_results"
    /\ UNCHANGED <<input, output, project>>
    /\ UNCHANGED <<input_intact, next_action, prePause, graph, node, services, default_service,
                   fallback_chain, calls, outcome, request, response, faults>>

NextRouterRun ==
    \/ OrchestratorStep
    \/ ChangeAgentResults

SpecRouterRun == InitRouterRun /\ [][NextRouterRun]_vars

\* The order of the statuses of a run.
StatusOrder == <<INITIALIZED, PLANNING, CODING, TESTING, ENHANCING, COMPLETED>>

InOrder(ws) == \E i \in 1..Len(StatusOrder) : StatusOrder[i] = ws

Position(ws) == CHOOSE i \in 1..Len(StatusOrder) : StatusOrder[i] = ws

\* C27: an orchestrator step writes either failed or a status of the order
\* at the position of the status it found or at the next one; what happens
\* to agent_results between the steps does not move the status.
C27_MonotoneProgress ==
    [][ /\ last' = "orchestrator"
           => \/ StatusOf(state') = FAILED
              \/ /\ InOrder(GivenStatus)
                 /\ InOrder(StatusOf(state'))
                 /\ Position(StatusOf(state')) \in {Position(GivenStatus), Position(GivenStatus) + 1}
        /\ last' = "change_agent_results"
           => Get(state', "workflow_status", INITIALIZED) = GivenStatus ]_vars

\* The step from coding to testing, taken after the coder's entry was set to
\* completed over a malformed planner entry.
C27_Witness ==
    /\ last = "orchestrator"
    /\ StatusOf(state) = TESTING
    /\ Get(Get(state, "workflow_metadata", EmptyDict), "progress", NoneVal)
           = calculate_progress(CODING)
    /\ Get(Get(state, "agent_results", EmptyDict), "coder", EmptyDict)
           = [code_generation_status |-> "completed"]
    /\ ~IsDict(Get(Get(state, "agent_results", EmptyDict), "planner", EmptyDict))

-----------------------------------------------------------------------------
(* The agent nodes and the keys the router reads *)

RoutingKeys == {"workflow_status", "next_agent", "agent_results"}

WorkerNodes == {"planner", "coder", "tester", "enhancer", "memory", "toolbox"}

\* C28: a step of the planner, coder, tester, enhancer, memory or toolbox
\* node, ended normally or in its except branch, returns a state in which
\* workflow_status, next_agent and agent_results are present exactly when
\* they were in its input and hold the same values; the node's outcome is in
\* its own top-level status key.
C28_OnlyOrchestratorRoutes ==
    [][ (node \in WorkerNodes)
        => ( /\ \A k \in RoutingKeys :
                   /\ (k \in DOMAIN state') = (k \in DOMAIN state)
                   /\ (k \in DOMAIN state) => (state'[k] = state[k])
             /\ StatusKey(node) \in DOMAIN state'
             /\ state'[StatusKey(node)] \in {"completed", "failed"} ) ]_vars

\* The coder has completed and the tester has failed while the routing keys
\* still say what the orchestrator wrote: planning, with the planner next.
C28_Witness ==
    /\ last = "tester"
    /\ Get(state, "testing_status", NoneVal) = "failed"
    /\ Get(state, "code_generation_status", NoneVal) = "completed"
    /\ StatusOf(state) = PLANNING
    /\ Get(state, "next_agent", NoneVal) = "planner"
    /\ "coder" \notin DOMAIN Get(state, "agent_results", EmptyDict)

-----------------------------------------------------------------------------
(* services/llm.py: the providers one call invokes *)

\* C29: in one generate_response no provider is invoked twice, every
\* provider invoked before the last one raised, there are no more
\* invocations than registered providers, and a registered provider that was
\* named and raised is the first invocation and is not invoked again.
C29_EachProviderOnce ==
    last = "generate_response"
        => /\ \A i \in DOMAIN calls, j \in DOMAIN calls : i # j => calls[i] # calls[j]
           /\ \A i \in 1..(Len(calls) - 1) : outcome[calls[i]].raises
           /\ Len(calls) <= Cardinality(services)
           /\ \A i \in DOMAIN calls : calls[i] \in services
           /\ (request \in services /\ outcome[request].raises)
                  => (calls[1] = request /\ \A i \in 2..Len(calls) : calls[i] # request)

\* The named provider is in the fallback chain and raised: it was invoked
\* once and the call ended with the sentinel.
C29_Witness ==
    /\ last = "generate_response"
    /\ request \in services
    /\ \E i \in DOMAIN fallback_chain : fallback_chain[i] = request
    /\ outcome[request].raises
    /\ calls = <<request>>
    /\ response = Sentinel
====
